---- MODULE Spec2Model ----
(***************************************************************************)
(* A model of two components of the fezz host runtime:                     *)
(*                                                                         *)
(*  - FunctionRegistry (src/src/function/registry.rs): register, load,     *)
(*    unload, execute and remove, as called concurrently by several tasks. *)
(*    Every block that holds the registry's RwLock has no await inside it  *)
(*    and is one action; the per-handler RwLock is held across the user    *)
(*    callbacks and is modelled explicitly.       Specification: Spec      *)
(*                                                                         *)
(*  - the library cache of the dynamic host (src/hhrf/src/main.rs):        *)
(*    get_or_load_library, the invocation in handle_rpc and the background *)
(*    TTL cleanup task, over a discrete clock.    Specification: SpecCache *)
(***************************************************************************)
EXTENDS Integers, Sequences, FiniteSets, TLC

(* ------------------------------ bounds -------------------------------- *)

\* Number of concurrent callers of the FunctionRegistry.
NumProcs == 2
\* Number of handler instances (Box<dyn FezzFunction>) that can be registered.
MaxHandlers == 2

\* Number of concurrent requests (handle_rpc tasks) of the dynamic host.
NumReqs == 2
\* Number of successful Library::new calls in a behaviour.
MaxLibs == 2
\* The clock stops here, in seconds since the host started.
MaxTime == 420
\* The step of the clock, in seconds.
TimeStep == 60
\* The longest time, in seconds, by which the sleep of the cleanup loop and
\* the cleanup after it overrun the sleep's deadline.
MaxLate == 60

\* Number of buffers the plugins allocate in a behaviour.
MaxBufs == 2

\* Longest request path, in characters after the leading slash.
MaxPathLen == 3
\* Largest number of headers of a request.
MaxHeaders == 2

\* Number of watch calls on the MemoryStore in a behaviour.
MaxWatchers == 2
\* Largest number of unread events in a watcher's channel.
MaxEvents == 2

\* Largest number of routes in the RouteTable.
MaxRoutes == 3

\* An execute call is cancelled only while the counter of its entry is at
\* most this.
MaxLeaked == 2

Procs == 1..NumProcs
Reqs == 1..NumReqs
Libs == 1..MaxLibs
\* Cache keys, format!("{}:{}", id, manifest.entry).
Keys == {"a:fezz.so", "b:fezz.so"}
Handlers == 1..MaxHandlers
\* Function names used by the callers.
Names == {"f"}

\* Option<T>: None, or Some(x) with the value at index 1.
None == << >>
Some(x) == << x >>

(* ------------------------------- state -------------------------------- *)

VARIABLES
    functions,    \* FunctionRegistry.functions: name -> FunctionEntry
    regLock,      \* holder of the write guard on FunctionRegistry.functions
    nextHandler,  \* the next handler instance to be registered
    hwriter,      \* per handler RwLock: the task holding the write guard
    hreaders,     \* per handler RwLock: the tasks holding a read guard
    lastCb,       \* per handler: the lifecycle callback that completed last
    op,           \* per task: the registry method it is in
    pc,           \* per task: its position in that method
    nm,           \* per task: the name argument
    hd,           \* per task: its clone of entry.function (an Arc)
    result,       \* per task: what its fetch returned (execute's `result`),
                  \* or the error its on_load returned (load's `e`)
    ret,          \* per task: what its call returned, for the task whose
                  \* call returned last ("none" for the others)
    request,      \* per task: the HTTP request its handle_request is serving
    fctx          \* per task: the FunctionContext its execute gives to fetch

regVars == << functions, regLock, nextHandler, hwriter, hreaders, lastCb,
              op, pc, nm, hd, result, ret, request, fctx >>

VARIABLES
    cache,        \* LibraryCache: key -> CachedLibrary
    strong,       \* per Library: the strong count of its Arc
    mapped,       \* the Library values not yet dropped (still dlopen-ed)
    nextLib,      \* the next Library instance Library::new returns
    rpc,          \* per request: its position in handle_rpc
    rkey,         \* per request being handled: its cache_key
    rlib,         \* per request: the Arc<Library> in its `library` variable
    rdrop,        \* per request: the Library it loaded and is dropping after
                  \* it lost the insertion race
    clock,        \* Instant::now(), in seconds since the host started
    cpc,          \* the cleanup task's position
    cnow,         \* the cleanup task's `now`
    wake,         \* the instant the cleanup task's sleep ends
    evicted,      \* the cleanup task's `evicted` of its last run
    loads,        \* per key: Library::new calls that succeeded since the key
                  \* was last evicted
    inserts       \* per key: cache_guard.insert calls since the key was last
                  \* evicted

cacheVars == << cache, strong, mapped, nextLib, rpc, rkey, rlib, rdrop, clock,
                cpc, cnow, wake, evicted, loads, inserts >>

VARIABLES
    blocking,     \* per request: the position of its spawn_blocking closure
    raw_ptr,      \* per request: the pointer fezz_fetch returned (None: null)
    buffers,      \* the C strings the plugins allocated, in allocation order,
                  \* each with the library whose fezz_fetch allocated it
    rresult,      \* per request: the `result` of spawn_blocking(..).await,
                  \* from the end of the closure until handle_rpc reads it
    response      \* per request: the HTTP response it was given

pluginVars == << blocking, raw_ptr, buffers, rresult, response >>

\* The state of the dynamic host: the library cache and the plugin calls.
hostVars == << cacheVars, pluginVars >>

VARIABLES
    incoming,     \* the HTTP request handle_request is answering
    converted     \* what it was converted to

convVars == << incoming, converted >>

VARIABLES
    fezz_response, \* the function's response being turned into HTTP
    built,         \* what build_response (server.rs) made of it
    http_resp      \* what handle_rpc (hhrf) made of it

respVars == << fezz_response, built, http_resp >>

VARIABLES
    wire_value,   \* the FezzWireRequest or FezzWireResponse being sent
    wire_bytes,   \* its encoding, as the sequence of CBOR data item heads
    wire_decoded  \* what the receiver decoded from the bytes

codecVars == << wire_value, wire_bytes, wire_decoded >>

VARIABLES
    entries,      \* MemoryStore.entries: function id -> FunctionEntry
    watchers,     \* MemoryStore.watchers: the channels, in the order pushed
    store_pc,     \* per task: its position in a MemoryStore method
    store_ev,     \* per task in notify: the event it is sending
    store_ix,     \* per task in notify: the watcher it sends to next
    store_ret,    \* per task: what its call returned, for the task whose
                  \* call returned last (NoResult for the others)
    applied       \* the tasks whose mutation is applied and whose call has
                  \* not returned, in the order their write guards on
                  \* entries were held

storeVars ==
    << entries, watchers, store_pc, store_ev, store_ix, store_ret, applied >>

VARIABLES
    routes,       \* RouteTable.routes: the Vec<Route>
    found         \* the last find call: its arguments and what it returned

routeVars == << routes, found >>

\* The state of the components that are exercised on their own.
utilVars == << convVars, respVars, codecVars, storeVars, routeVars >>

\* Everything but the variables of one of these components.
exceptConv ==
    << regVars, cacheVars, pluginVars, respVars, codecVars, storeVars,
       routeVars >>
exceptResp ==
    << regVars, cacheVars, pluginVars, convVars, codecVars, storeVars,
       routeVars >>
exceptCodec ==
    << regVars, cacheVars, pluginVars, convVars, respVars, storeVars,
       routeVars >>
exceptStore ==
    << regVars, cacheVars, pluginVars, convVars, respVars, codecVars,
       routeVars >>
exceptRoute ==
    << regVars, cacheVars, pluginVars, convVars, respVars, codecVars,
       storeVars >>

vars == << regVars, cacheVars, pluginVars, utilVars >>

(* ------------------------- FunctionRegistry --------------------------- *)

FunctionState == {"Unloaded", "Loading", "Ready", "Unloading"}

\* FunctionRegistry.global_env, as given to with_env.
GlobalEnv == [STAGE |-> "prod"]

\* register, lines 76-79: FunctionContext::new(&name, "") with every
\* variable of the global environment inserted.
NewContext(n) == [env |-> GlobalEnv, function_name |-> n, request_id |-> ""]

\* FunctionEntry as built by register.
NewEntry(n, h) ==
    [function |-> h, state |-> "Unloaded", context |-> NewContext(n),
     active_invocations |-> 0]

\* The request_id argument of task p's execute call: the id handle_request
\* made of the time (runtime/server.rs, lines 100 and 227-234), or for a
\* direct call one that names the caller.
RequestIdOf(p) ==
    IF request[p] # None
    THEN ToString(request[p][1].request_id)
    ELSE "call-" \o ToString(p)

\* PerRequest without the assignment of the request id.
PerRequestNoId(context, request_id) == context

\* execute, lines 205-206: entry.context.clone() with request_id set.
PerRequest(context, request_id) ==
    [context EXCEPT !.request_id = request_id]

\* usize::saturating_sub(1)
SaturatingSub1(n) == IF n > 0 THEN n - 1 ELSE 0

\* DropGuard without the drop: the caller keeps the write guard.
KeepGuard(p) == Some(p)

\* drop(functions): the write guard on the registry map is released before
\* the handler lock is awaited and the callback runs.
DropGuard(p) == None

\* self.functions.write().await is granted.
RegLockFree == regLock = None

Contains(n) == n \in DOMAIN functions

Insert(n, e) == [x \in DOMAIN functions \cup {n} |->
                    IF x = n THEN e ELSE functions[x]]

Remove(n) == [x \in DOMAIN functions \ {n} |-> functions[x]]

\* The handlers some Arc still points to: from an entry of the map fs, or
\* from a task's clone (hds).
Live(fs, hds) ==
    {fs[n].function : n \in DOMAIN fs}
        \cup {hds[p][1] : p \in {q \in Procs : hds[q] # None}}

\* Dropping the last Arc drops the handler (the Box) with all it recorded.
\* lc is the callback history after this step's own callback, if any.
Reap(lc) ==
    [h \in Handlers |->
        IF h >= nextHandler' \/ h \in Live(functions', hd')
        THEN lc[h] ELSE "dropped"]

\* A call of method m by task p returns r to its caller; with it ends the
\* handle_request that made the call, if any (server.rs, lines 161-170).
Finish(p, r) ==
    /\ pc' = [pc EXCEPT ![p] = "idle"]
    /\ op' = [op EXCEPT ![p] = "idle"]
    /\ hd' = [hd EXCEPT ![p] = None]
    /\ result' = [result EXCEPT ![p] = None]
    /\ ret' = [q \in Procs |-> IF q = p THEN r ELSE "none"]
    /\ request' = [request EXCEPT ![p] = None]
    /\ fctx' = [fctx EXCEPT ![p] = None]

\* Task p is at position at of method m, holding handler reference h.
Goto(p, m, at, h) ==
    /\ pc' = [pc EXCEPT ![p] = at]
    /\ op' = [op EXCEPT ![p] = m]
    /\ hd' = [hd EXCEPT ![p] = h]
    /\ ret' = [ret EXCEPT ![p] = "none"]
    /\ UNCHANGED << result, request, fctx >>

\* Register without the contains_key check: the insertion overwrites.
RegisterOverwrites(p, n) ==
    /\ UNCHANGED << hostVars, utilVars >>
    /\ pc[p] = "idle"
    /\ RegLockFree
    /\ nextHandler <= MaxHandlers
    /\ nm' = [nm EXCEPT ![p] = n]
    /\ functions' = Insert(n, NewEntry(n, nextHandler))
    /\ nextHandler' = nextHandler + 1
    /\ Finish(p, "Ok")
    /\ UNCHANGED << regLock, hwriter, hreaders >>
    /\ lastCb' = Reap(lastCb)

\* register: one block under the write guard.
Register(p, n) ==
    /\ UNCHANGED << hostVars, utilVars >>
    /\ pc[p] = "idle"
    /\ RegLockFree
    /\ nextHandler <= MaxHandlers
    /\ nm' = [nm EXCEPT ![p] = n]
    /\ IF Contains(n)
       THEN /\ Finish(p, "AlreadyRegistered")
            /\ UNCHANGED << functions, nextHandler >>
       ELSE /\ functions' = Insert(n, NewEntry(n, nextHandler))
            /\ nextHandler' = nextHandler + 1
            /\ Finish(p, "Ok")
    /\ UNCHANGED << regLock, hwriter, hreaders, lastCb >>

\* LoadReturns with execute ignoring the result of load (no `?` on line 194).
LoadReturnsIgnoresError(p, m, r) ==
    IF m = "execute"
    THEN Goto(p, m, "exec_inc", None)
    ELSE Finish(p, r)

\* load returns r: to its caller, or (m = "execute") to the rest of execute,
\* which goes on only after Ok (line 194).
LoadReturns(p, m, r) ==
    IF m = "execute" /\ r = "Ok"
    THEN Goto(p, m, "exec_inc", None)
    ELSE Finish(p, r)

\* LoadStart without the check for Loading: a second load goes on to wait
\* for the handler and call on_load.
LoadStartNoLoadingCheck(p, n, m) ==
    /\ RegLockFree
    /\ IF ~Contains(n)
       THEN /\ LoadReturns(p, m, "NotFound")
            /\ UNCHANGED << functions, regLock >>
       ELSE IF functions[n].state = "Ready"
       THEN /\ LoadReturns(p, m, "Ok")
            /\ UNCHANGED << functions, regLock >>
       ELSE /\ functions' = [functions EXCEPT ![n].state = "Loading"]
            /\ regLock' = DropGuard(p)
            /\ Goto(p, m, "load_lock", Some(functions[n].function))
    /\ UNCHANGED << nextHandler, hwriter, hreaders, lastCb >>

\* LoadStart without drop(functions): the write guard on the map is still
\* held when the handler lock is awaited and on_load runs.
LoadStartKeepsGuard(p, n, m) ==
    /\ RegLockFree
    /\ IF ~Contains(n)
       THEN /\ LoadReturns(p, m, "NotFound")
            /\ UNCHANGED << functions, regLock >>
       ELSE IF functions[n].state = "Ready"
       THEN /\ LoadReturns(p, m, "Ok")
            /\ UNCHANGED << functions, regLock >>
       ELSE IF functions[n].state = "Loading"
       THEN /\ LoadReturns(p, m, "AlreadyLoading")
            /\ UNCHANGED << functions, regLock >>
       ELSE /\ functions' = [functions EXCEPT ![n].state = "Loading"]
            /\ regLock' = Some(p)
            /\ Goto(p, m, "load_lock", Some(functions[n].function))
    /\ UNCHANGED << nextHandler, hwriter, hreaders, lastCb >>

\* load, lines 95-118, called for method m (load itself, or execute): the
\* state checks and the move to Loading.
LoadStart(p, n, m) ==
    /\ RegLockFree
    /\ IF ~Contains(n)
       THEN /\ LoadReturns(p, m, "NotFound")
            /\ UNCHANGED << functions, regLock >>
       ELSE IF functions[n].state = "Ready"
       THEN /\ LoadReturns(p, m, "Ok")
            /\ UNCHANGED << functions, regLock >>
       ELSE IF functions[n].state = "Loading"
       THEN /\ LoadReturns(p, m, "AlreadyLoading")
            /\ UNCHANGED << functions, regLock >>
       ELSE /\ functions' = [functions EXCEPT ![n].state = "Loading"]
            /\ regLock' = DropGuard(p)
            /\ Goto(p, m, "load_lock", Some(functions[n].function))
    /\ UNCHANGED << nextHandler, hwriter, hreaders, lastCb >>

\* A task calls load(n).
CallLoad(p, n) ==
    /\ UNCHANGED << hostVars, utilVars >>
    /\ pc[p] = "idle"
    /\ nm' = [nm EXCEPT ![p] = n]
    /\ LoadStart(p, n, "load")

\* A task calls execute(n), which first calls load(n) (line 194).
CallExecute(p, n) ==
    /\ UNCHANGED << hostVars, utilVars >>
    /\ pc[p] = "idle"
    /\ nm' = [nm EXCEPT ![p] = n]
    /\ LoadStart(p, n, "execute")

\* load, line 121: function.write().await is granted and on_load starts.
LoadLock(p) ==
    /\ UNCHANGED << hostVars, utilVars >>
    /\ pc[p] = "load_lock"
    /\ hwriter[hd[p][1]] = None
    /\ hreaders[hd[p][1]] = {}
    /\ hwriter' = [hwriter EXCEPT ![hd[p][1]] = Some(p)]
    /\ pc' = [pc EXCEPT ![p] = "on_load"]
    /\ UNCHANGED << functions, regLock, nextHandler, hreaders, lastCb,
                    op, nm, hd, result, ret, request,
                    fctx >>

\* load, line 122: on_load returns r. load goes on to ask for the write
\* guard on the map, on line 126 after an error, which it keeps in `e`, and
\* on line 134 after Ok; it still holds the handler's write guard.
OnLoadReturns(p, r) ==
    /\ UNCHANGED << hostVars, utilVars >>
    /\ pc[p] = "on_load"
    /\ pc' = [pc EXCEPT ![p] = IF r = "Ok" THEN "load_ready" ELSE "load_reset"]
    /\ result' = IF r = "Ok" THEN result ELSE [result EXCEPT ![p] = Some(r)]
    /\ lastCb' = [lastCb EXCEPT ![hd[p][1]] =
                     IF r = "Ok" THEN "on_load_ok" ELSE "on_load_err"]
    /\ UNCHANGED << functions, regLock, nextHandler, hwriter, hreaders,
                    op, nm, hd, ret, request, fctx >>

\* load, lines 126-130 (r an error) and 134-140 (r Ok): the write guard on
\* the map is granted, the final state is written, and load returns what
\* on_load returned; the handler's write guard is dropped on return.
LoadFinish(p, r) ==
    /\ UNCHANGED << hostVars, utilVars >>
    /\ pc[p] = IF r = "Ok" THEN "load_ready" ELSE "load_reset"
    /\ r = "Ok" \/ result[p] = Some(r)
    /\ RegLockFree
    /\ LET n == nm[p]
           h == hd[p][1]
       IN /\ functions' =
                IF Contains(n)
                THEN [functions EXCEPT ![n].state =
                        IF r = "Ok" THEN "Ready" ELSE "Unloaded"]
                ELSE functions
          /\ hwriter' = [hwriter EXCEPT ![h] = None]
          /\ LoadReturns(p, op[p], r)
          /\ UNCHANGED << regLock, nextHandler, hreaders, nm >>
          /\ lastCb' = Reap(lastCb)

\* unload returns r: to its caller, or (m = "remove") to the rest of remove,
\* which goes on only after Ok (line 247).
UnloadReturns(p, m, r) ==
    IF m = "remove" /\ r = "Ok"
    THEN Goto(p, m, "remove_del", None)
    ELSE Finish(p, r)

\* unload, lines 145-168, called for method m (unload itself, or remove):
\* the state check and the move to Unloading.
UnloadStart(p, n, m) ==
    /\ RegLockFree
    /\ IF ~Contains(n)
       THEN /\ UnloadReturns(p, m, "NotFound")
            /\ UNCHANGED << functions, regLock >>
       ELSE IF functions[n].state = "Unloaded"
       THEN /\ UnloadReturns(p, m, "Ok")
            /\ UNCHANGED << functions, regLock >>
       ELSE /\ functions' = [functions EXCEPT ![n].state = "Unloading"]
            /\ regLock' = DropGuard(p)
            /\ Goto(p, m, "unload_lock", Some(functions[n].function))
    /\ UNCHANGED << nextHandler, hwriter, hreaders, lastCb >>

\* A task calls unload(n).
CallUnload(p, n) ==
    /\ UNCHANGED << hostVars, utilVars >>
    /\ pc[p] = "idle"
    /\ nm' = [nm EXCEPT ![p] = n]
    /\ UnloadStart(p, n, "unload")

\* UnloadLock granted while fetch calls hold read guards on the handler.
UnloadLockIgnoresReaders(p) ==
    /\ UNCHANGED << hostVars, utilVars >>
    /\ pc[p] = "unload_lock"
    /\ hwriter[hd[p][1]] = None
    /\ hwriter' = [hwriter EXCEPT ![hd[p][1]] = Some(p)]
    /\ pc' = [pc EXCEPT ![p] = "on_unload"]
    /\ UNCHANGED << functions, regLock, nextHandler, hreaders, lastCb,
                    op, nm, hd, result, ret, request,
                    fctx >>

\* unload, line 171: function.write().await is granted and on_unload starts.
UnloadLock(p) ==
    /\ UNCHANGED << hostVars, utilVars >>
    /\ pc[p] = "unload_lock"
    /\ hwriter[hd[p][1]] = None
    /\ hreaders[hd[p][1]] = {}
    /\ hwriter' = [hwriter EXCEPT ![hd[p][1]] = Some(p)]
    /\ pc' = [pc EXCEPT ![p] = "on_unload"]
    /\ UNCHANGED << functions, regLock, nextHandler, hreaders, lastCb,
                    op, nm, hd, result, ret, request,
                    fctx >>

\* OnUnloadReturns with the error of on_unload returned at once (a `?` on
\* line 172): the state stays Unloading.
OnUnloadReturnsPropagates(p, r) ==
    /\ UNCHANGED << hostVars, utilVars >>
    /\ pc[p] = "on_unload"
    /\ UNCHANGED << functions, regLock, nextHandler, hreaders, nm >>
    /\ IF r = "Ok"
       THEN /\ pc' = [pc EXCEPT ![p] = "unload_done"]
            /\ lastCb' = [lastCb EXCEPT ![hd[p][1]] = "on_unload_ok"]
            /\ UNCHANGED << hwriter, op, hd, result, ret, request, fctx >>
       ELSE /\ hwriter' = [hwriter EXCEPT ![hd[p][1]] = None]
            /\ Finish(p, "Err")
            /\ lastCb' = Reap([lastCb EXCEPT ![hd[p][1]] = "on_unload_err"])

\* unload, lines 172-174: on_unload returns r; an error is only logged.
\* unload goes on to ask for the write guard on the map (line 177); it
\* still holds the handler's write guard.
OnUnloadReturns(p, r) ==
    /\ UNCHANGED << hostVars, utilVars >>
    /\ pc[p] = "on_unload"
    /\ pc' = [pc EXCEPT ![p] = "unload_done"]
    /\ lastCb' = [lastCb EXCEPT ![hd[p][1]] =
                     IF r = "Ok" THEN "on_unload_ok" ELSE "on_unload_err"]
    /\ UNCHANGED << functions, regLock, nextHandler, hwriter, hreaders,
                    op, nm, hd, result, ret, request,
                    fctx >>

\* unload, lines 177-184: the write guard on the map is granted, the state
\* is set to Unloaded and unload returns Ok; the handler's write guard is
\* dropped on return.
UnloadFinish(p) ==
    /\ UNCHANGED << hostVars, utilVars >>
    /\ pc[p] = "unload_done"
    /\ RegLockFree
    /\ LET n == nm[p]
           h == hd[p][1]
       IN /\ functions' =
                IF Contains(n)
                THEN [functions EXCEPT ![n].state = "Unloaded"]
                ELSE functions
          /\ hwriter' = [hwriter EXCEPT ![h] = None]
          /\ UnloadReturns(p, op[p], "Ok")
          /\ UNCHANGED << regLock, nextHandler, hreaders, nm >>
          /\ lastCb' = Reap(lastCb)

\* execute, lines 197-209: the entry is looked up again and its counter
\* incremented.
ExecIncrement(p) ==
    /\ UNCHANGED << hostVars, utilVars >>
    /\ pc[p] = "exec_inc"
    /\ RegLockFree
    /\ LET n == nm[p] IN
       IF ~Contains(n)
       THEN /\ Finish(p, "NotFound")
            /\ UNCHANGED functions
       ELSE /\ functions' = [functions EXCEPT ![n].active_invocations = @ + 1]
            /\ pc' = [pc EXCEPT ![p] = "exec_lock"]
            /\ hd' = [hd EXCEPT ![p] = Some(functions[n].function)]
            /\ fctx' = [fctx EXCEPT ![p] =
                           Some(PerRequest(functions[n].context,
                                           RequestIdOf(p)))]
            /\ UNCHANGED << op, result, ret, request >>
    /\ UNCHANGED << regLock, nextHandler, hwriter, hreaders, lastCb, nm >>

\* execute, line 213: function.read().await is granted and fetch starts.
ExecLock(p) ==
    /\ UNCHANGED << hostVars, utilVars >>
    /\ pc[p] = "exec_lock"
    /\ hwriter[hd[p][1]] = None
    /\ hreaders' = [hreaders EXCEPT ![hd[p][1]] = @ \cup {p}]
    /\ pc' = [pc EXCEPT ![p] = "fetch"]
    /\ UNCHANGED << functions, regLock, nextHandler, hwriter, lastCb,
                    op, nm, hd, result, ret, request,
                    fctx >>

\* execute, lines 214-215: fetch returns r and the read guard is dropped.
ExecFetchReturns(p, r) ==
    /\ UNCHANGED << hostVars, utilVars >>
    /\ pc[p] = "fetch"
    /\ hreaders' = [hreaders EXCEPT ![hd[p][1]] = @ \ {p}]
    /\ result' = [result EXCEPT ![p] = Some(r)]
    /\ pc' = [pc EXCEPT ![p] = "exec_dec"]
    /\ UNCHANGED << functions, regLock, nextHandler, hwriter, lastCb,
                    op, nm, hd, ret, request, fctx >>

\* ExecDecrement with the decrement skipped when fetch returned an error.
ExecDecrementOnOkOnly(p) ==
    /\ UNCHANGED << hostVars, utilVars >>
    /\ pc[p] = "exec_dec"
    /\ RegLockFree
    /\ LET n == nm[p] IN
       functions' =
          IF Contains(n) /\ result[p][1] = "Ok"
          THEN [functions EXCEPT ![n].active_invocations = SaturatingSub1(@)]
          ELSE functions
    /\ Finish(p, result[p][1])
    /\ UNCHANGED << regLock, nextHandler, hwriter, hreaders, nm >>
    /\ lastCb' = Reap(lastCb)

\* ExecDecrement returning Ok whatever fetch returned.
ExecDecrementReturnsOk(p) ==
    /\ UNCHANGED << hostVars, utilVars >>
    /\ pc[p] = "exec_dec"
    /\ RegLockFree
    /\ LET n == nm[p] IN
       functions' =
          IF Contains(n)
          THEN [functions EXCEPT ![n].active_invocations = SaturatingSub1(@)]
          ELSE functions
    /\ Finish(p, "Ok")
    /\ UNCHANGED << regLock, nextHandler, hwriter, hreaders, nm >>
    /\ lastCb' = Reap(lastCb)

\* execute, lines 218-225: the counter of the entry now stored under the
\* name is decremented, and the fetch result is returned.
ExecDecrement(p) ==
    /\ UNCHANGED << hostVars, utilVars >>
    /\ pc[p] = "exec_dec"
    /\ RegLockFree
    /\ LET n == nm[p] IN
       functions' =
          IF Contains(n)
          THEN [functions EXCEPT ![n].active_invocations = SaturatingSub1(@)]
          ELSE functions
    /\ Finish(p, result[p][1])
    /\ UNCHANGED << regLock, nextHandler, hwriter, hreaders, nm >>
    /\ lastCb' = Reap(lastCb)

\* A task calls remove(n); get_state (line 246) decides whether unload is
\* called first.
CallRemove(p, n) ==
    /\ UNCHANGED << hostVars, utilVars >>
    /\ pc[p] = "idle"
    /\ RegLockFree
    /\ nm' = [nm EXCEPT ![p] = n]
    /\ Goto(p, "remove",
            IF Contains(n) /\ functions[n].state = "Ready"
            THEN "unload_start" ELSE "remove_del", None)
    /\ UNCHANGED << functions, regLock, nextHandler, hwriter, hreaders,
                    lastCb >>

\* remove, line 247: unload is called.
RemoveUnload(p) ==
    /\ UNCHANGED << hostVars, utilVars >>
    /\ pc[p] = "unload_start"
    /\ UNCHANGED nm
    /\ UnloadStart(p, nm[p], "remove")

\* remove, lines 250-256: the entry is deleted.
RemoveDelete(p) ==
    /\ UNCHANGED << hostVars, utilVars >>
    /\ pc[p] = "remove_del"
    /\ RegLockFree
    /\ LET n == nm[p] IN
       IF Contains(n)
       THEN /\ functions' = Remove(n)
            /\ Finish(p, "Ok")
       ELSE /\ Finish(p, "NotFound")
            /\ UNCHANGED functions
    /\ UNCHANGED << regLock, nextHandler, hwriter, hreaders, nm >>
    /\ lastCb' = Reap(lastCb)

\* FunctionRegistry::new()
RegInit ==
    /\ functions = << >>
    /\ regLock = None
    /\ nextHandler = 1
    /\ hwriter = [h \in Handlers |-> None]
    /\ hreaders = [h \in Handlers |-> {}]
    /\ lastCb = [h \in Handlers |-> "none"]
    /\ op = [p \in Procs |-> "idle"]
    /\ pc = [p \in Procs |-> "idle"]
    /\ nm = [p \in Procs |-> "f"]
    /\ hd = [p \in Procs |-> None]
    /\ result = [p \in Procs |-> None]
    /\ ret = [p \in Procs |-> "none"]
    /\ request = [p \in Procs |-> None]
    /\ fctx = [p \in Procs |-> None]

CallbackResult == {"Ok", "Err"}

RegNext ==
    \E p \in Procs :
        \/ \E n \in Names :
              \/ Register(p, n)
              \/ CallLoad(p, n)
              \/ CallUnload(p, n)
              \/ CallExecute(p, n)
              \/ CallRemove(p, n)
        \/ LoadLock(p)
        \/ \E r \in CallbackResult : OnLoadReturns(p, r)
        \/ \E r \in CallbackResult : LoadFinish(p, r)
        \/ UnloadLock(p)
        \/ \E r \in CallbackResult : OnUnloadReturns(p, r)
        \/ UnloadFinish(p)
        \/ ExecIncrement(p)
        \/ ExecLock(p)
        \/ \E r \in CallbackResult : ExecFetchReturns(p, r)
        \/ ExecDecrement(p)
        \/ RemoveUnload(p)
        \/ RemoveDelete(p)

\* The await points of execute: the locks and callbacks of its load, the
\* guard on the map for the increment, the handler's read guard, fetch, and
\* the guard on the map for the decrement.
ExecuteAwaits ==
    {"load_lock", "on_load", "load_ready", "load_reset",
     "exec_inc", "exec_lock", "fetch", "exec_dec"}

\* The future of task p's execute call is dropped at an await point (the
\* server drops the request's future when its connection ends): the guards
\* it holds are dropped, and nothing after the await point runs.
CancelExecute(p) ==
    /\ UNCHANGED << hostVars, utilVars >>
    /\ op[p] = "execute"
    /\ pc[p] \in ExecuteAwaits
    /\ Contains(nm[p]) => functions[nm[p]].active_invocations <= MaxLeaked
    /\ hwriter' = [h \in Handlers |->
                     IF hwriter[h] = Some(p) THEN None ELSE hwriter[h]]
    /\ hreaders' = [h \in Handlers |-> hreaders[h] \ {p}]
    /\ Finish(p, "Cancelled")
    /\ UNCHANGED << functions, regLock, nextHandler, nm >>
    /\ lastCb' = Reap(lastCb)

\* The registry's methods, and execute calls that are cancelled.
CancelNext ==
    \/ RegNext
    \/ \E p \in Procs : CancelExecute(p)

\* The names of the functions when the callers use more than one.
FunctionNames == {"f", "g"}

\* The registry's methods called on either of two functions.
FunctionsNext ==
    \E p \in Procs :
        \/ \E n \in FunctionNames :
              \/ Register(p, n)
              \/ CallLoad(p, n)
              \/ CallUnload(p, n)
              \/ CallExecute(p, n)
              \/ CallRemove(p, n)
        \/ LoadLock(p)
        \/ \E r \in CallbackResult : OnLoadReturns(p, r)
        \/ \E r \in CallbackResult : LoadFinish(p, r)
        \/ UnloadLock(p)
        \/ \E r \in CallbackResult : OnUnloadReturns(p, r)
        \/ UnloadFinish(p)
        \/ ExecIncrement(p)
        \/ ExecLock(p)
        \/ \E r \in CallbackResult : ExecFetchReturns(p, r)
        \/ ExecDecrement(p)
        \/ RemoveUnload(p)
        \/ RemoveDelete(p)

(* --------------------------- library cache ---------------------------- *)

\* const CACHE_IDLE_TIMEOUT: Duration = Duration::from_secs(300)
CACHE_IDLE_TIMEOUT == 300
\* const CACHE_CLEANUP_INTERVAL: Duration = Duration::from_secs(60)
CACHE_CLEANUP_INTERVAL == 60

\* Instant::duration_since: zero when `earlier` is later than self.
DurationSince(now, earlier) == IF now >= earlier THEN now - earlier ELSE 0

\* Expired with >= in place of >.
ExpiredAtTimeout(now, entry) ==
    DurationSince(now, entry.last_used) >= CACHE_IDLE_TIMEOUT

\* The test of the retain closure: true for an entry that is evicted.
Expired(now, entry) ==
    DurationSince(now, entry.last_used) > CACHE_IDLE_TIMEOUT

\* HashMap::retain with the closure of cleanup_expired_libraries.
Retain(c, now) ==
    [k \in {x \in DOMAIN c : ~Expired(now, c[x])} |-> c[k]]

\* The instant the sleep of the cleanup loop ends, when started at now.
SleepUntil(now) == now + CACHE_CLEANUP_INTERVAL

\* Arc::clone: one more strong reference to Library l.
ArcClone(s, l) == [s EXCEPT ![l] = @ + 1]

\* Drop of one Arc on each Library in ls.
ArcDrop(s, ls) == [l \in Libs |-> IF l \in ls THEN s[l] - 1 ELSE s[l]]

\* Dropping the last Arc drops the Library, which unloads it: what stays
\* loaded of m when the strong counts become s. A Library inside its drop
\* stays loaded until that drop ends.
StillMapped(m, s) ==
    {l \in m : s[l] > 0 \/ \E r \in Reqs : rdrop[r] = Some(l)}

\* HitHandle without the clone: the caller shares the cache's reference.
HitHandleBorrowed(s, l) == s

\* entry.library.clone() on a cache hit: the caller's own strong reference.
HitHandle(s, l) == ArcClone(s, l)

\* Lookup without the refresh of last_used on a hit.
LookupKeepsLastUsed(r, k) ==
    /\ UNCHANGED << regVars, pluginVars, utilVars >>
    /\ rpc[r] = "idle"
    /\ rkey' = [rkey EXCEPT ![r] = Some(k)]
    /\ IF k \in DOMAIN cache
       THEN /\ strong' = HitHandle(strong, cache[k].library)
            /\ rlib' = [rlib EXCEPT ![r] = Some(cache[k].library)]
            /\ rpc' = [rpc EXCEPT ![r] = "invoke"]
            /\ UNCHANGED cache
       ELSE /\ rpc' = [rpc EXCEPT ![r] = "load"]
            /\ UNCHANGED << cache, strong, rlib >>
    /\ UNCHANGED << mapped, nextLib, rdrop, clock, cpc, cnow, wake, evicted,
                    loads, inserts >>

\* get_or_load_library, lines 248-256, called by handle_rpc for key k: the
\* lookup under the write guard; a hit refreshes last_used and returns.
Lookup(r, k) ==
    /\ UNCHANGED << regVars, pluginVars, utilVars >>
    /\ rpc[r] = "idle"
    /\ rkey' = [rkey EXCEPT ![r] = Some(k)]
    /\ IF k \in DOMAIN cache
       THEN /\ cache' = [cache EXCEPT ![k].last_used = clock]
            /\ strong' = HitHandle(strong, cache[k].library)
            /\ rlib' = [rlib EXCEPT ![r] = Some(cache[k].library)]
            /\ rpc' = [rpc EXCEPT ![r] = "invoke"]
       ELSE /\ rpc' = [rpc EXCEPT ![r] = "load"]
            /\ UNCHANGED << cache, strong, rlib >>
    /\ UNCHANGED << mapped, nextLib, rdrop, clock, cpc, cnow, wake, evicted,
                    loads, inserts >>

\* error_response(status, message), lines 294-301: a text/plain response
\* whose body is the message.
error_response(st) ==
    [status |-> st, content_type |-> "text/plain", body |-> "message"]

\* LibraryNew dropping the key's cache entry when the load fails.
LibraryNewEvictsOnError(r, ok) ==
    /\ UNCHANGED << regVars, utilVars >>
    /\ rpc[r] = "load"
    /\ IF ok
       THEN /\ nextLib <= MaxLibs
            /\ strong' = [strong EXCEPT ![nextLib] = 1]
            /\ mapped' = mapped \cup {nextLib}
            /\ rlib' = [rlib EXCEPT ![r] = Some(nextLib)]
            /\ nextLib' = nextLib + 1
            /\ loads' = [loads EXCEPT ![rkey[r][1]] = @ + 1]
            /\ rpc' = [rpc EXCEPT ![r] = "insert"]
            /\ UNCHANGED << rkey, response, cache >>
       ELSE /\ rpc' = [rpc EXCEPT ![r] = "idle"]
            /\ rkey' = [rkey EXCEPT ![r] = None]
            /\ response' = [response EXCEPT ![r] = Some(error_response(500))]
            /\ cache' = [x \in DOMAIN cache \ {rkey[r][1]} |-> cache[x]]
            /\ UNCHANGED << strong, mapped, rlib, nextLib, loads >>
    /\ UNCHANGED << blocking, raw_ptr, buffers, rresult >>
    /\ UNCHANGED << rdrop, clock, cpc, cnow, wake, evicted, inserts >>

\* get_or_load_library, lines 261-264: Library::new outside any lock. On an
\* error get_or_load_library returns it before it takes the write lock, and
\* handle_rpc (lines 141-148) answers error_response(500, ..).
LibraryNew(r, ok) ==
    /\ UNCHANGED << regVars, utilVars >>
    /\ rpc[r] = "load"
    /\ IF ok
       THEN /\ nextLib <= MaxLibs
            /\ strong' = [strong EXCEPT ![nextLib] = 1]
            /\ mapped' = mapped \cup {nextLib}
            /\ rlib' = [rlib EXCEPT ![r] = Some(nextLib)]
            /\ nextLib' = nextLib + 1
            /\ loads' = [loads EXCEPT ![rkey[r][1]] = @ + 1]
            /\ rpc' = [rpc EXCEPT ![r] = "insert"]
            /\ UNCHANGED << rkey, response >>
       ELSE /\ rpc' = [rpc EXCEPT ![r] = "idle"]
            /\ rkey' = [rkey EXCEPT ![r] = None]
            /\ response' = [response EXCEPT ![r] = Some(error_response(500))]
            /\ UNCHANGED << strong, mapped, rlib, nextLib, loads >>
    /\ UNCHANGED << blocking, raw_ptr, buffers, rresult >>
    /\ UNCHANGED << cache, rdrop, clock, cpc, cnow, wake, evicted, inserts >>

\* RaceLost returning the caller's own library instead of the cached one.
RaceLostKeepsOwn(r) ==
    LET k == rkey[r][1]
    IN /\ cache' = [cache EXCEPT ![k].last_used = clock]
       /\ rpc' = [rpc EXCEPT ![r] = "invoke"]
       /\ UNCHANGED << rlib, rdrop, strong, mapped, inserts >>

\* get_or_load_library, lines 270-274, when the key is in the cache at the
\* second check: under the write guard last_used is refreshed and the cached
\* handle is cloned for the caller; the return releases the guard and then
\* drops the caller's own `library`, the only Arc of the Library it loaded.
\* The step ends inside that drop, the Library still loaded.
RaceLost(r) ==
    LET k == rkey[r][1]
        mine == rlib[r][1]
        winner == cache[k].library
    IN /\ cache' = [cache EXCEPT ![k].last_used = clock]
       /\ rlib' = [rlib EXCEPT ![r] = Some(winner)]
       /\ strong' = ArcDrop(ArcClone(strong, winner), {mine})
       /\ rdrop' = [rdrop EXCEPT ![r] = Some(mine)]
       /\ rpc' = [rpc EXCEPT ![r] = "drop"]
       /\ UNCHANGED << mapped, inserts >>

\* The insertion of the freshly loaded library (lines 276-290).
RaceWon(r) ==
    LET k == rkey[r][1]
        mine == rlib[r][1]
    IN /\ cache' = [x \in DOMAIN cache \cup {k} |->
                      IF x = k THEN [library |-> mine, last_used |-> clock]
                      ELSE cache[x]]
       /\ strong' = ArcClone(strong, mine)
       /\ inserts' = [inserts EXCEPT ![k] = @ + 1]
       /\ rpc' = [rpc EXCEPT ![r] = "invoke"]
       /\ UNCHANGED << rlib, rdrop, mapped >>

\* InsertOrReuse without the second check: the insertion overwrites.
InsertNoRecheck(r) ==
    /\ UNCHANGED << regVars, pluginVars, utilVars >>
    /\ rpc[r] = "insert"
    /\ RaceWon(r)
    /\ UNCHANGED << nextLib, rkey, clock, cpc, cnow, wake, evicted, loads >>

\* get_or_load_library, lines 267-290: the second check under the write
\* guard, then the insertion.
InsertOrReuse(r) ==
    /\ UNCHANGED << regVars, pluginVars, utilVars >>
    /\ rpc[r] = "insert"
    /\ IF rkey[r][1] \in DOMAIN cache THEN RaceLost(r) ELSE RaceWon(r)
    /\ UNCHANGED << nextLib, rkey, clock, cpc, cnow, wake, evicted, loads >>

\* get_or_load_library, line 273, after the guard is released: the drop of
\* the Library the caller loaded unloads it, and the call returns the cached
\* handle to handle_rpc.
DropLibrary(r) ==
    /\ UNCHANGED << regVars, pluginVars, utilVars >>
    /\ rpc[r] = "drop"
    /\ mapped' = mapped \ {rdrop[r][1]}
    /\ rdrop' = [rdrop EXCEPT ![r] = None]
    /\ rpc' = [rpc EXCEPT ![r] = "invoke"]
    /\ UNCHANGED << cache, strong, nextLib, rkey, rlib, clock, cpc, cnow, wake,
                    evicted, loads, inserts >>

\* spawn_cache_cleanup_task, lines 74-75, and cleanup_expired_libraries,
\* line 82: the sleep ends, at its deadline or any time after it (tokio's
\* sleep lasts at least its duration), and `now` is taken.
CleanupWake ==
    /\ UNCHANGED << regVars, pluginVars, utilVars >>
    /\ cpc = "sleep"
    /\ clock >= wake
    /\ cnow' = clock
    /\ cpc' = "retain"
    /\ UNCHANGED << cache, strong, mapped, nextLib, rpc, rkey, rlib, rdrop,
                    clock, wake, evicted, loads, inserts >>

\* cleanup_expired_libraries, lines 83-106: retain under the write guard,
\* which may be granted later than `now` was taken; the evicted entries'
\* Arcs are dropped; then the loop sleeps again, from the time the cleanup
\* returned.
CleanupRetain ==
    /\ UNCHANGED << regVars, pluginVars, utilVars >>
    /\ cpc = "retain"
    /\ LET kept == Retain(cache, cnow)
           gone == DOMAIN cache \ DOMAIN kept
           s == ArcDrop(strong, {cache[k].library : k \in gone})
       IN /\ cache' = kept
          /\ strong' = s
          /\ mapped' = StillMapped(mapped, s)
          /\ evicted' = Cardinality(DOMAIN cache) - Cardinality(DOMAIN kept)
          /\ loads' = [k \in Keys |-> IF k \in gone THEN 0 ELSE loads[k]]
          /\ inserts' = [k \in Keys |-> IF k \in gone THEN 0 ELSE inserts[k]]
    /\ wake' = SleepUntil(clock)
    /\ cpc' = "sleep"
    /\ UNCHANGED << nextLib, rpc, rkey, rlib, rdrop, clock, cnow >>

\* Time passes, whatever the cleanup task and the requests are doing; a pass
\* of the cleanup loop is over no later than MaxLate after the deadline of its
\* sleep.
Tick ==
    /\ UNCHANGED << regVars, pluginVars, utilVars >>
    /\ clock < MaxTime
    /\ clock + TimeStep <= wake + MaxLate
    /\ clock' = clock + TimeStep
    /\ UNCHANGED << cache, strong, mapped, nextLib, rpc, rkey, rlib, rdrop,
                    cpc, cnow, wake, evicted, loads, inserts >>

\* main, lines 52-55: an empty cache, and the cleanup task in its first sleep.
CacheInit ==
    /\ cache = << >>
    /\ strong = [l \in Libs |-> 0]
    /\ mapped = {}
    /\ nextLib = 1
    /\ rpc = [r \in Reqs |-> "idle"]
    /\ rkey = [r \in Reqs |-> None]
    /\ rlib = [r \in Reqs |-> None]
    /\ rdrop = [r \in Reqs |-> None]
    /\ clock = 0
    /\ cpc = "sleep"
    /\ cnow = 0
    /\ wake = SleepUntil(0)
    /\ evicted = 0
    /\ loads = [k \in Keys |-> 0]
    /\ inserts = [k \in Keys |-> 0]

(* ---------------------------- plugin call ----------------------------- *)

\* The responses the user's handler returns inside a fezz_fetch generated by
\* #[fezz_function]: here a 200 or a 404 with a JSON body.
HandlerReturns == {"returns", "returns:404"}

\* What the user's handler does: it returns a response, or it panics.
HandlerOutcome == HandlerReturns \cup {"panics"}

\* What the generated fezz_fetch does: the request it is given does not
\* parse as a FezzHttpRequest and the handler is not called, or the handler
\* runs.
WrapperOutcome == HandlerOutcome \cup {"invalid_request"}

\* What the fezz_fetch of the host's plugins does. The request is the JSON
\* handle_rpc wrote itself (lines 153-161) and always parses; the generated
\* wrapper runs the user's handler, which returns a response of any status
\* or panics; a plugin written without the macro can also return a null
\* pointer, or a C string that is not valid UTF-8 or not the JSON of a
\* response.
FetchReturn == HandlerOutcome \cup {"null", "not_utf8", "not_json"}

\* The response the user's handler returns.
UserResponse(outcome) ==
    [status |-> IF outcome = "returns" THEN 200 ELSE 404,
     content_type |-> "application/json", body |-> "user"]

\* CatchUnwind without the Err arm: a panic leaves no response.
CatchUnwindOkOnly(outcome) ==
    CASE outcome = "invalid_request" ->
            Some([status |-> 400, content_type |-> "application/json",
                  body |-> "{\"error\":\"Invalid request: ..\"}"])
      [] outcome = "panics" -> None
      [] OTHER -> Some(UserResponse(outcome))

\* fezz_function, lines 34-71: catch_unwind around the parse of the request
\* and the user's handler. The 400 JSON response made from the parse error,
\* the handler's own response, or the 500 JSON response made from the panic
\* message.
CatchUnwind(outcome) ==
    CASE outcome = "invalid_request" ->
            Some([status |-> 400, content_type |-> "application/json",
                  body |-> "{\"error\":\"Invalid request: ..\"}"])
      [] outcome = "panics" ->
            Some([status |-> 500, content_type |-> "application/json",
                  body |-> "{\"error\":\"Function panicked: ..\"}"])
      [] OTHER -> Some(UserResponse(outcome))

\* The response the JSON in the returned C string stands for, if any
\* (fezz_function, lines 73-88: serde_json::to_string and into_raw).
Serialized(out) ==
    IF out \in WrapperOutcome THEN CatchUnwind(out) ELSE None

\* The Result the closure returns: Ok(resp_str), with what the JSON in
\* resp_str stands for (None when it is not the JSON of a response), or Err.
ClosureOk(resp) == [ok |-> TRUE, resp_str |-> resp]
ClosureErr == [ok |-> FALSE, resp_str |-> None]

\* What a step of the closure leaves alone.
closureKept == << cache, nextLib, rpc, rkey, rdrop, clock, cpc, cnow, wake,
                 evicted, loads, inserts >>

\* The closure of request r goes on.
ClosureRuns(r) == UNCHANGED << strong, mapped, rlib, rresult >>

\* handle_rpc, lines 165-202: the closure of request r returns res on the
\* blocking thread. The closure owns `library`: its Arc is dropped there,
\* which unloads the Library when it was the last one. handle_rpc is not yet
\* polled again: the request has no response.
ClosureReturns(r, res) ==
    /\ blocking' = [blocking EXCEPT ![r] = "idle"]
    /\ raw_ptr' = [raw_ptr EXCEPT ![r] = None]
    /\ rresult' = [rresult EXCEPT ![r] = Some(res)]
    /\ LET s == ArcDrop(strong, {rlib[r][1]}) IN
          /\ strong' = s
          /\ mapped' = StillMapped(mapped, s)
    /\ rlib' = [rlib EXCEPT ![r] = None]

\* handle_rpc, lines 165-175: the closure starts on the blocking thread, once
\* get_or_load_library has returned the handle, and resolves fezz_fetch; a
\* missing symbol makes the closure return its error.
GetSymbol(r, ok) ==
    /\ UNCHANGED << regVars, closureKept, utilVars >>
    /\ rpc[r] = "invoke"
    /\ rlib[r] # None
    /\ blocking[r] = "idle"
    /\ response' = [response EXCEPT ![r] = None]
    /\ IF ok
       THEN /\ blocking' = [blocking EXCEPT ![r] = "fezz_fetch"]
            /\ ClosureRuns(r)
            /\ UNCHANGED raw_ptr
       ELSE ClosureReturns(r, ClosureErr)
    /\ UNCHANGED buffers

\* handle_rpc, lines 177-181: the plugin's fezz_fetch returns; a null pointer
\* makes the closure return its error.
FezzFetch(r, out) ==
    /\ UNCHANGED << regVars, closureKept, utilVars >>
    /\ blocking[r] = "fezz_fetch"
    /\ IF out = "null"
       THEN /\ ClosureReturns(r, ClosureErr)
            /\ UNCHANGED buffers
       ELSE /\ Len(buffers) < MaxBufs
            /\ buffers' = Append(buffers,
                                 [utf8 |-> out # "not_utf8", frees |-> 0,
                                  resp |-> Serialized(out),
                                  library |-> rlib[r]])
            /\ raw_ptr' = [raw_ptr EXCEPT ![r] = Some(Len(buffers) + 1)]
            /\ blocking' = [blocking EXCEPT ![r] = "to_str"]
            /\ ClosureRuns(r)
    /\ UNCHANGED response

\* handle_rpc, lines 184-190: CStr::to_str; invalid UTF-8 makes the closure
\* return its error.
ToStr(r) ==
    /\ UNCHANGED << regVars, closureKept, utilVars >>
    /\ blocking[r] = "to_str"
    /\ IF buffers[raw_ptr[r][1]].utf8
       THEN /\ blocking' = [blocking EXCEPT ![r] = "from_raw"]
            /\ ClosureRuns(r)
            /\ UNCHANGED raw_ptr
       ELSE ClosureReturns(r, ClosureErr)
    /\ UNCHANGED << buffers, response >>

\* handle_rpc, lines 196-201: CString::from_raw frees the plugin's string and
\* the closure returns the copy it made.
FromRaw(r) ==
    /\ UNCHANGED << regVars, closureKept, utilVars >>
    /\ blocking[r] = "from_raw"
    /\ buffers' = [buffers EXCEPT ![raw_ptr[r][1]].frees = @ + 1]
    /\ ClosureReturns(r, ClosureOk(buffers[raw_ptr[r][1]].resp))
    /\ UNCHANGED response

\* The response handle_rpc builds from the closure's result (lines 208-237):
\* the plugin's own status, headers and body, or error_response(500, ..) when
\* the closure returned an error or the JSON does not parse.
ResponseOf(res) ==
    IF res.ok /\ res.resp_str # None
    THEN res.resp_str[1]
    ELSE error_response(500)

\* handle_rpc, lines 202-237: spawn_blocking(..).await yields the closure's
\* result to handle_rpc, polled again, which builds the response and returns.
InvokeReturns(r) ==
    /\ UNCHANGED << regVars, utilVars >>
    /\ rpc[r] = "invoke"
    /\ rresult[r] # None
    /\ response' = [response EXCEPT ![r] = Some(ResponseOf(rresult[r][1]))]
    /\ rresult' = [rresult EXCEPT ![r] = None]
    /\ rkey' = [rkey EXCEPT ![r] = None]
    /\ rpc' = [rpc EXCEPT ![r] = "idle"]
    /\ UNCHANGED << blocking, raw_ptr, buffers >>
    /\ UNCHANGED << cache, strong, mapped, nextLib, rlib, rdrop, clock, cpc,
                    cnow, wake, evicted, loads, inserts >>

\* What can go wrong with a function's fezz.json.
ManifestErrors == {"missing", "invalid"}

\* handle_rpc, lines 113-130, for a request whose manifest cannot be read
\* (404) or parsed (400): it is answered before the cache is looked at.
ManifestError(r, e) ==
    /\ UNCHANGED << regVars, cacheVars, utilVars >>
    /\ rpc[r] = "idle"
    /\ blocking[r] = "idle"
    /\ response' = [response EXCEPT ![r] =
                       Some(error_response(IF e = "missing" THEN 404 ELSE 400))]
    /\ UNCHANGED << blocking, raw_ptr, buffers, rresult >>

PluginInit ==
    /\ blocking = [r \in Reqs |-> "idle"]
    /\ raw_ptr = [r \in Reqs |-> None]
    /\ buffers = << >>
    /\ rresult = [r \in Reqs |-> None]
    /\ response = [r \in Reqs |-> None]

\* The closure that calls the plugin.
PluginNext ==
    \E r \in Reqs :
        \/ \E ok \in BOOLEAN : GetSymbol(r, ok)
        \/ \E out \in FetchReturn : FezzFetch(r, out)
        \/ ToStr(r)
        \/ FromRaw(r)

\* The returns of fezz_fetch that allocate no buffer.
NoBuffer == {"null"}

\* handle_rpc and the cleanup task as time passes: the library cache, in
\* front of closures that find no fezz_fetch in the library or get a null
\* pointer from it.
CacheNext ==
    \/ \E r \in Reqs :
          \/ \E k \in Keys : Lookup(r, k)
          \/ \E ok \in BOOLEAN : LibraryNew(r, ok)
          \/ InsertOrReuse(r)
          \/ DropLibrary(r)
          \/ \E ok \in BOOLEAN : GetSymbol(r, ok)
          \/ \E out \in NoBuffer : FezzFetch(r, out)
          \/ InvokeReturns(r)
    \/ CleanupWake
    \/ CleanupRetain
    \/ Tick

(* ----------------------------- HTTP server ---------------------------- *)

\* HhrfConfig::default: max_body_size, in bytes.
MAX_BODY_SIZE == 10 * 1024 * 1024
\* HhrfConfig::default: request_timeout, in seconds. No code reads it.
REQUEST_TIMEOUT == 30

\* StatusCode::OK, BAD_REQUEST, NOT_FOUND, INTERNAL_SERVER_ERROR
OK == 200
BAD_REQUEST == 400
NOT_FOUND == 404
INTERNAL_SERVER_ERROR == 500

\* Body lengths of the requests, around the limit.
BodyLens == {0, MAX_BODY_SIZE, MAX_BODY_SIZE + 1}

\* convert_request, lines 189-196: the length check on the collected body.
TooLarge(len) == len > MAX_BODY_SIZE

\* Function names in the paths of the incoming requests.
ReqNames == Names \cup {"g"}

\* StatusCode::from_u16(..).is_ok(): 100 to 999.
ValidStatus(st) == st >= 100 /\ st < 1000

\* HeaderName::try_from(name).is_ok() and HeaderValue::try_from(value).is_ok()
ValidHeader(name, value) == name # "bad name" /\ value # "line\nfeed"

\* A response builder fails in body() when anything given to it was invalid,
\* and the unwrap() on its result panics; the task of the request ends
\* without a response.
Panic == [panicked |-> TRUE, status |-> 0, headers |-> << >>, body |-> None]

\* No response is being built.
NothingBuilt ==
    [panicked |-> FALSE, status |-> 0, headers |-> << >>, body |-> None]

\* Option<Bytes>::unwrap_or_default
UnwrapOrDefault(body) == IF body = None THEN Some("") ELSE body

\* build_response, server.rs lines 207-224: an invalid status falls back to
\* 500; every header is given to the builder.
build_response(resp) ==
    LET status == IF ValidStatus(resp.status)
                  THEN resp.status ELSE INTERNAL_SERVER_ERROR
    IN IF \A n \in DOMAIN resp.headers : ValidHeader(n, resp.headers[n])
       THEN [panicked |-> FALSE, status |-> status, headers |-> resp.headers,
             body |-> UnwrapOrDefault(resp.body)]
       ELSE Panic

\* FezzResponse::ok, and FezzResponse::error(status, message): a response
\* with the header Content-Type: text/plain whose body is the message.
FezzResponseOk == [status |-> OK, headers |-> << >>, body |-> None]
FezzResponseError(st, message) ==
    [status |-> st, headers |-> [h \in {"Content-Type"} |-> "text/plain"],
     body |-> Some(message)]

\* What fetch returns to the server: Ok with the handler's own response
\* (FezzResponse::ok, an error response, a status hyper does not take, a
\* header hyper does not take), or one of HandlerErrors.
HandlerResponse(r) ==
    CASE r = "Ok" -> FezzResponseOk
      [] r = "Ok:error(404)" -> FezzResponseError(NOT_FOUND, "nf")
      [] r = "Ok:status(1000)" -> [FezzResponseOk EXCEPT !.status = 1000]
      [] r = "Ok:header(bad name)" ->
            [FezzResponseOk EXCEPT !.headers = [h \in {"bad name"} |-> "v"]]
OkResults ==
    {"Ok", "Ok:error(404)", "Ok:status(1000)", "Ok:header(bad name)"}

\* The errors a callback returns to the server, by the constructor that made
\* them (handler.rs, lines 82-106).
HandlerErrors ==
    {"Err", "Err:bad_request", "Err:not_found", "Err:with_code(418)",
     "Err:with_code(1000)"}

\* The FezzError of outcome r of execute for function n: a callback's error,
\* or one of the registry's own (registry.rs, lines 99 and 107).
FezzErrorOf(r, n) ==
    CASE r = "Err" -> [code |-> 500, message |-> "failed"]
      [] r = "Err:bad_request" -> [code |-> 400, message |-> "bad"]
      [] r = "Err:not_found" -> [code |-> 404, message |-> "nf"]
      [] r = "Err:with_code(418)" -> [code |-> 418, message |-> "coded"]
      [] r = "Err:with_code(1000)" -> [code |-> 1000, message |-> "coded"]
      [] r = "NotFound" ->
            [code |-> 404, message |-> "Function '" \o n \o "' not found"]
      [] r = "AlreadyLoading" ->
            [code |-> 500,
             message |-> "Function '" \o n \o "' is already being loaded"]

\* The response handle_request makes from an outcome r that is not Ok:
\* FezzResponse::error on line 152 when convert_request failed (with its
\* own message, or with the text of hyper's error, which stands for itself
\* here), or
\* FezzError::into on line 168, FezzResponse::error(err.code, err.message).
ErrorResponseOf(r, n) ==
    CASE r = "BadRequest" ->
            FezzResponseError(BAD_REQUEST, "Request body too large")
      [] r = "BadRequest:collect" ->
            FezzResponseError(BAD_REQUEST, "hyper::Error")
      [] OTHER ->
            FezzResponseError(FezzErrorOf(r, n).code,
                              FezzErrorOf(r, n).message)

\* The response handle_request gives to build_response for outcome r: the
\* handler's own after Ok (line 162), else the one made from the error.
Answer(r, n) ==
    IF r \in OkResults THEN HandlerResponse(r) ELSE ErrorResponseOf(r, n)

\* StatusOf with every error answered as an internal error.
StatusOfErrorsAs500(r, n) ==
    IF r \in OkResults
    THEN Some(build_response(Answer(r, n)).status)
    ELSE Some(INTERNAL_SERVER_ERROR)

\* The status of the HTTP response handle_request answers outcome r with, if
\* any: that of build_response's result, which is 500 for a status hyper
\* does not take; there is no response when build_response panics.
StatusOf(r, n) ==
    IF build_response(Answer(r, n)).panicked
    THEN None
    ELSE Some(build_response(Answer(r, n)).status)

\* handle_request, lines 98-148, and convert_request, lines 178-189, up to
\* the await on the body, for a request to function n that has a body of len
\* bytes on the wire: the request id is taken from the clock and the function
\* name from the path; the body has not been read.
HandleRequest(p, n, len) ==
    /\ UNCHANGED << hostVars, utilVars >>
    /\ pc[p] = "idle"
    /\ nm' = [nm EXCEPT ![p] = n]
    /\ pc' = [pc EXCEPT ![p] = "srv_collect"]
    /\ op' = [op EXCEPT ![p] = "handle_request"]
    /\ request' = [request EXCEPT ![p] =
                      Some([body_len |-> len, request_id |-> clock])]
    /\ ret' = [ret EXCEPT ![p] = "none"]
    /\ UNCHANGED << hd, result, fctx >>
    /\ UNCHANGED << functions, regLock, nextHandler, hwriter, hreaders,
                    lastCb >>

\* convert_request, lines 189-203, and handle_request, lines 148-158:
\* req.collect().await returns, with the body (ok) or with hyper's error,
\* and the length of the body is checked; a failure of convert_request is
\* answered at once.
Collect(p, ok) ==
    /\ UNCHANGED << hostVars, utilVars >>
    /\ pc[p] = "srv_collect"
    /\ UNCHANGED nm
    /\ IF ~ok
       THEN Finish(p, "BadRequest:collect")
       ELSE IF TooLarge(request[p][1].body_len)
            THEN Finish(p, "BadRequest")
            ELSE /\ pc' = [pc EXCEPT ![p] = "srv_execute"]
                 /\ UNCHANGED << op, hd, result, ret, request, fctx >>
    /\ UNCHANGED << functions, regLock, nextHandler, hwriter, hreaders,
                    lastCb >>

\* handle_request, line 161: registry.execute is called and awaited, with
\* nothing that bounds the wait.
SrvExecute(p) ==
    /\ UNCHANGED << hostVars, utilVars >>
    /\ pc[p] = "srv_execute"
    /\ UNCHANGED nm
    /\ LoadStart(p, nm[p], "execute")

\* What on_load and fetch return to the server.
LoadResults == {"Ok"} \cup HandlerErrors
FetchResults == OkResults \cup HandlerErrors

\* HhrfServer: request tasks that share the registry, and register_function.
SrvNext ==
    \/ \E p \in Procs :
          \/ \E n \in Names : Register(p, n)
          \/ \E n \in ReqNames :
                \E len \in BodyLens : HandleRequest(p, n, len)
          \/ \E ok \in BOOLEAN : Collect(p, ok)
          \/ SrvExecute(p)
          \/ LoadLock(p)
          \/ \E r \in LoadResults : OnLoadReturns(p, r)
          \/ \E r \in LoadResults : LoadFinish(p, r)
          \/ ExecIncrement(p)
          \/ ExecLock(p)
          \/ \E r \in FetchResults : ExecFetchReturns(p, r)
          \/ ExecDecrement(p)
    \/ Tick

(* ------------------------- request conversion ------------------------ *)

\* Strings whose characters matter are sequences of characters.
SeqsUpTo(S, n) == UNION {[1..k -> S] : k \in 0..n}

\* Request paths as Uri::path gives them: they start with a slash.
PathChars == {"/", "f", "a"}
Paths == {<< "/" >> \o s : s \in SeqsUpTo(PathChars, MaxPathLen)}

\* Uri::query: None without a question mark, else what follows it.
Queries == {None, Some(<< >>), Some(<< "q" >>)}

\* Incoming headers, in the order received. The value "bytes_ff" stands for
\* bytes that are not visible ASCII, for which HeaderValue::to_str fails.
HeaderNames == {"a", "b"}
HeaderValues == {"v", "w", "bytes_ff"}
HeaderLists ==
    SeqsUpTo([name : HeaderNames, value : HeaderValues], MaxHeaders)

\* str::trim_start_matches('/')
RECURSIVE TrimStartMatches(_)
TrimStartMatches(s) ==
    IF s # << >> /\ Head(s) = "/" THEN TrimStartMatches(Tail(s)) ELSE s

\* str::splitn(2, '/').collect(): the parts around the first slash.
Splitn(s) ==
    IF \E i \in 1..Len(s) : s[i] = "/"
    THEN LET i == CHOOSE i \in 1..Len(s) :
                     s[i] = "/" /\ \A j \in 1..(i - 1) : s[j] # "/"
         IN << SubSeq(s, 1, i - 1), SubSeq(s, i + 1, Len(s)) >>
    ELSE << s >>

\* handle_request, lines 141-145: sub_path.
SubPath(parts) ==
    IF Len(parts) > 1 THEN << "/" >> \o parts[2] ELSE << "/" >>

\* HeaderValue::to_str(..).is_ok()
ToStrOk(v) == v # "bytes_ff"

\* convert_request, lines 182-187: the headers are inserted one by one into a
\* HashMap<String, String>; a value that is not a str is skipped.
RECURSIVE HeaderMap(_, _)
HeaderMap(m, hs) ==
    IF hs = << >>
    THEN m
    ELSE LET h == Head(hs)
         IN HeaderMap(IF ToStrOk(h.value)
                      THEN [x \in DOMAIN m \cup {h.name} |->
                               IF x = h.name THEN h.value ELSE m[x]]
                      ELSE m,
                      Tail(hs))

\* The locals of convert_request while it awaits the body: the function name
\* taken from the path, and the url and the headers of the FezzRequest.
Collecting(name, url, headers) ==
    [outcome |-> "Collecting", function_name |-> name, url |-> url,
     headers |-> headers]

\* handle_request, lines 98-148, and convert_request, lines 178-189, up to
\* the await on the body: the request with path u, query q, headers hs and a
\* body of len bytes on the wire is answered 404 at once (no function
\* named), or the function is named by the first segment of the path, the
\* url and the headers of the FezzRequest are made, and the body is awaited.
ConvertRequest(u, q, hs, len) ==
    /\ UNCHANGED exceptConv
    /\ incoming = None
    /\ incoming' = Some([path |-> u, query |-> q, headers |-> hs,
                         body_len |-> len])
    /\ LET parts == Splitn(TrimStartMatches(u))
       IN converted' =
            IF parts[1] = << >>
            THEN [outcome |-> "NotFound", function_name |-> << >>,
                  request |-> None]
            ELSE Collecting(parts[1], SubPath(parts), HeaderMap(<< >>, hs))

\* convert_request, lines 189-203, and handle_request, lines 148-158:
\* req.collect().await returns, with the body (ok) or with hyper's error; the
\* request is answered 400 after an error and when the body is too large,
\* else the FezzRequest is complete.
ConvertCollect(ok) ==
    /\ UNCHANGED exceptConv
    /\ incoming # None
    /\ converted.outcome = "Collecting"
    /\ UNCHANGED incoming
    /\ converted' =
          IF ~ok
          THEN [outcome |-> "BadRequest:collect",
                function_name |-> converted.function_name, request |-> None]
          ELSE IF TooLarge(incoming[1].body_len)
          THEN [outcome |-> "BadRequest",
                function_name |-> converted.function_name, request |-> None]
          ELSE [outcome |-> "Ok", function_name |-> converted.function_name,
                request |-> Some([url |-> converted.url,
                                  headers |-> converted.headers,
                                  body_len |-> incoming[1].body_len])]

\* No request has been converted.
NotConverted == [outcome |-> "none", function_name |-> << >>, request |-> None]

\* The request has been answered; the next one is awaited.
ConvertDone ==
    /\ UNCHANGED exceptConv
    /\ incoming # None
    /\ converted.outcome # "Collecting"
    /\ incoming' = None
    /\ converted' = NotConverted

ConvInit ==
    /\ incoming = None
    /\ converted = NotConverted

ConvNext ==
    \/ /\ incoming = None
       /\ \E u \in Paths : \E q \in Queries : \E hs \in HeaderLists :
             \E len \in BodyLens : ConvertRequest(u, q, hs, len)
    \/ \E ok \in BOOLEAN : ConvertCollect(ok)
    \/ ConvertDone

(* -------------------------- response building ------------------------ *)

\* Status codes a function can put in its response (a u16), around the
\* range the http crate accepts.
StatusCodes == {99, 100, 200, 999, 1000}

\* Header names and values a function can put in its response. "bad name"
\* stands for a name that is not a token, "line\nfeed" for a value with a
\* control character: HeaderName and HeaderValue reject them.
RespHeaderNames == {"x-a", "x-b", "bad name"}
RespHeaderValues == {"v", "line\nfeed"}

\* The header collections of the responses.
RespHeaders ==
    UNION {[ns -> RespHeaderValues] : ns \in SUBSET RespHeaderNames}

\* The responses of the functions.
FezzResponses ==
    [status : StatusCodes, headers : RespHeaders, body : {None, Some("b")}]

\* handle_rpc, hhrf/src/main.rs lines 225-237: the status and every header
\* are given to the builder.
HttpResp(resp) ==
    IF /\ ValidStatus(resp.status)
       /\ \A n \in DOMAIN resp.headers : ValidHeader(n, resp.headers[n])
    THEN [panicked |-> FALSE, status |-> resp.status,
          headers |-> resp.headers, body |-> UnwrapOrDefault(resp.body)]
    ELSE Panic

\* A function has returned resp and each gateway builds its HTTP response.
BuildResponse(resp) ==
    /\ UNCHANGED exceptResp
    /\ fezz_response = None
    /\ fezz_response' = Some(resp)
    /\ built' = build_response(resp)
    /\ http_resp' = HttpResp(resp)

\* The request is over; the next response is awaited.
BuildDone ==
    /\ UNCHANGED exceptResp
    /\ fezz_response # None
    /\ fezz_response' = None
    /\ built' = NothingBuilt
    /\ http_resp' = NothingBuilt

RespInit ==
    /\ fezz_response = None
    /\ built = NothingBuilt
    /\ http_resp = NothingBuilt

RespNext ==
    \/ /\ fezz_response = None
       /\ \E resp \in FezzResponses : BuildResponse(resp)
    \/ BuildDone

(* ----------------------------- wire codec ----------------------------- *)

\* The heads of the CBOR data items serde_cbor writes: a text or byte string
\* with its content, an unsigned integer, null, and the head of an array or
\* a map with its number of elements or entries.
Text(s) == [major |-> "text", arg |-> s]
Bytes(b) == [major |-> "bytes", arg |-> b]
Uint(n) == [major |-> "uint", arg |-> n]
Null == [major |-> "null", arg |-> 0]
Array(n) == [major |-> "array", arg |-> n]
Map(n) == [major |-> "map", arg |-> n]

\* The fields of the structs in declaration order, each with the kind of its
\* value (lib.rs, lines 16-54).
HeaderFields ==
    << [key |-> "name", kind |-> "bytes"], [key |-> "value", kind |-> "bytes"] >>
MetaFields ==
    << [key |-> "trace_id", kind |-> "opt_text"],
       [key |-> "deadline_ms", kind |-> "opt_u64"],
       [key |-> "client_ip", kind |-> "opt_text"] >>
RequestFields ==
    << [key |-> "method", kind |-> "text"],
       [key |-> "scheme", kind |-> "opt_text"],
       [key |-> "authority", kind |-> "opt_text"],
       [key |-> "path_and_query", kind |-> "text"],
       [key |-> "headers", kind |-> "headers"],
       [key |-> "body", kind |-> "bytes"],
       [key |-> "meta", kind |-> "opt_meta"] >>
ResponseFields ==
    << [key |-> "status", kind |-> "u16"],
       [key |-> "headers", kind |-> "headers"],
       [key |-> "body", kind |-> "bytes"] >>

\* The values the codec is given.
WireHeaders ==
    SeqsUpTo([name : {"a"}, value : {"", "v"}], MaxHeaders)
WireMetas ==
    [trace_id : {None, Some("t")},
     deadline_ms : {None, Some(0), Some(5000)},
     client_ip : {None, Some("")}]
WireRequests ==
    [method : {"GET"}, scheme : {None, Some("https")},
     authority : {None, Some("")}, path_and_query : {"/"},
     headers : WireHeaders, body : {"", "b"},
     meta : {None} \cup {Some(m) : m \in WireMetas}]
WireResponses ==
    [status : {0, 200, 65535}, headers : WireHeaders, body : {"", "b"}]

\* EncOption writing None as an empty text string.
EncOptionNoneAsText(o, item) ==
    IF o = None THEN << Text("") >> ELSE << item >>

\* Serialize for Option<T>: null for None, the value itself for Some.
EncOption(o, item) ==
    IF o = None THEN << Null >> ELSE << item >>

\* Serializer::serialize_struct and the derived Serialize: a map of as many
\* entries as the struct has fields, each field's name as a text string and
\* then its value.
RECURSIVE EncFields(_, _), EncValue(_, _), EncSeq(_, _)
EncStruct(v, fields) == << Map(Len(fields)) >> \o EncFields(v, fields)

EncFields(v, fields) ==
    IF fields = << >>
    THEN << >>
    ELSE << Text(Head(fields).key) >>
            \o EncValue(v[Head(fields).key], Head(fields).kind)
            \o EncFields(v, Tail(fields))

EncValue(x, kind) ==
    CASE kind = "text" -> << Text(x) >>
      [] kind = "bytes" -> << Bytes(x) >>
      [] kind = "u16" -> << Uint(x) >>
      [] kind = "opt_text" -> EncOption(x, IF x = None THEN Null ELSE Text(x[1]))
      [] kind = "opt_u64" -> EncOption(x, IF x = None THEN Null ELSE Uint(x[1]))
      [] kind = "opt_meta" ->
            IF x = None THEN << Null >> ELSE EncStruct(x[1], MetaFields)
      [] kind = "headers" -> << Array(Len(x)) >> \o EncSeq(x, HeaderFields)

EncSeq(xs, fields) ==
    IF xs = << >>
    THEN << >>
    ELSE EncStruct(Head(xs), fields) \o EncSeq(Tail(xs), fields)

\* encode_request and encode_response: serde_cbor::to_vec.
encode_request(req) == EncStruct(req, RequestFields)
encode_response(resp) == EncStruct(resp, ResponseFields)

\* A parse that failed (a serde_cbor::Error).
Fail == [ok |-> FALSE, val |-> None, rest |-> << >>]

\* A parse that gave value v and left the items rest.
Parsed(v, rest) == [ok |-> TRUE, val |-> v, rest |-> rest]

\* The data item at the head of ts is of major type m.
IsItem(ts, m) == ts # << >> /\ Head(ts).major = m

\* The content of a string that is not UTF-8; every other content is.
InvalidUtf8 == "<ff>"
ValidUtf8(s) == s # InvalidUtf8

\* The characters of the bytes of the digits and the letters, the bytes the
\* model's byte strings are made of.
Digits == << "0", "1", "2", "3", "4", "5", "6", "7", "8", "9" >>
Upper == << "A", "B", "C", "D", "E", "F", "G", "H", "I", "J", "K", "L", "M",
            "N", "O", "P", "Q", "R", "S", "T", "U", "V", "W", "X", "Y", "Z" >>
Lower == << "a", "b", "c", "d", "e", "f", "g", "h", "i", "j", "k", "l", "m",
            "n", "o", "p", "q", "r", "s", "t", "u", "v", "w", "x", "y", "z" >>
ByteChar(n) ==
    CASE n \in 48..57 -> Digits[n - 47]
      [] n \in 65..90 -> Upper[n - 64]
      [] n \in 97..122 -> Lower[n - 96]

\* Option<String>, Option<u64>, Option<FezzWireMeta>, and what each holds.
OptionKinds == {"opt_text", "opt_u64", "opt_meta"}
Inner(kind) ==
    CASE kind = "opt_text" -> "text"
      [] kind = "opt_u64" -> "u64"
      [] kind = "opt_meta" -> "meta"

\* The derived field visitor: a field is named by its name as a text or a
\* byte string, or by its index; any other name or index is a key to ignore
\* (0). A key of another type is an error, and so is a text string that is
\* not UTF-8.
FieldIndex(name, fields) ==
    IF \E i \in DOMAIN fields : fields[i].key = name
    THEN CHOOSE i \in DOMAIN fields : fields[i].key = name
    ELSE 0

DecField(ts, fields) ==
    CASE IsItem(ts, "text") /\ ValidUtf8(Head(ts).arg) ->
            Parsed(FieldIndex(Head(ts).arg, fields), Tail(ts))
      [] IsItem(ts, "bytes") ->
            Parsed(FieldIndex(Head(ts).arg, fields), Tail(ts))
      [] IsItem(ts, "uint") ->
            Parsed(IF Head(ts).arg < Len(fields) THEN Head(ts).arg + 1 ELSE 0,
                   Tail(ts))
      [] OTHER -> Fail

\* The end of the derived visit_map: a field no entry gave is None when it is
\* an Option and an error (missing_field) otherwise.
MissingField(acc, fields) ==
    IF \E i \in DOMAIN fields :
          fields[i].key \notin DOMAIN acc /\ fields[i].kind \notin OptionKinds
    THEN Fail
    ELSE Parsed([k \in {fields[i].key : i \in DOMAIN fields} |->
                    IF k \in DOMAIN acc THEN acc[k] ELSE None], << >>)

\* Deserializer and the derived Deserialize. A struct is read from a map of
\* its fields in any order, or from an array of its values in declaration
\* order; a value from the items its type accepts; each parse gives the
\* value and the items that follow it.
RECURSIVE IgnoredAny(_, _), DecStruct(_, _), DecFields(_, _, _, _),
          DecElements(_, _, _), DecValue(_, _), DecSeq(_, _, _, _),
          DecByteSeq(_, _, _)

\* IgnoredAny, the value of an ignored key: k whole data items are read and
\* dropped, arrays and maps with all they hold.
IgnoredAny(ts, k) ==
    IF k = 0
    THEN Parsed(None, ts)
    ELSE IF ts = << >> \/ (IsItem(ts, "text") /\ ~ValidUtf8(Head(ts).arg))
    THEN Fail
    ELSE CASE IsItem(ts, "array") ->
                 IgnoredAny(Tail(ts), k - 1 + Head(ts).arg)
           [] IsItem(ts, "map") ->
                 IgnoredAny(Tail(ts), k - 1 + 2 * Head(ts).arg)
           [] OTHER -> IgnoredAny(Tail(ts), k - 1)

\* parse_value on a map (visit_map) or an array (visit_seq, which takes as
\* many elements as the struct has fields; parse_array fails on more).
DecStruct(ts, fields) ==
    IF IsItem(ts, "map")
    THEN LET r == DecFields(Tail(ts), Head(ts).arg, fields, << >>)
             m == MissingField(r.val, fields)
         IN IF r.ok /\ m.ok THEN Parsed(m.val, r.rest) ELSE Fail
    ELSE IF IsItem(ts, "array") /\ Head(ts).arg = Len(fields)
    THEN DecElements(Tail(ts), fields, << >>)
    ELSE Fail

\* The loop of visit_map over the n entries of the map: the key, then the
\* value of the field it names (an error when the field was given before),
\* or a value to ignore.
DecFields(ts, n, fields, acc) ==
    IF n = 0
    THEN Parsed(acc, ts)
    ELSE LET f == DecField(ts, fields) IN
         IF ~f.ok
         THEN Fail
         ELSE IF f.val = 0
         THEN LET s == IgnoredAny(f.rest, 1)
              IN IF s.ok THEN DecFields(s.rest, n - 1, fields, acc) ELSE Fail
         ELSE LET k == fields[f.val].key
                  r == DecValue(f.rest, fields[f.val].kind)
              IN IF k \in DOMAIN acc \/ ~r.ok
                 THEN Fail
                 ELSE DecFields(r.rest, n - 1, fields,
                                [x \in DOMAIN acc \cup {k} |->
                                    IF x = k THEN r.val ELSE acc[x]])

\* visit_seq: the values of the fields in declaration order.
DecElements(ts, fields, acc) ==
    IF fields = << >>
    THEN Parsed(acc, ts)
    ELSE LET r == DecValue(ts, Head(fields).kind)
             k == Head(fields).key
         IN IF ~r.ok
            THEN Fail
            ELSE DecElements(r.rest, Tail(fields),
                             [x \in DOMAIN acc \cup {k} |->
                                 IF x = k THEN r.val ELSE acc[x]])

\* String takes a text string or a byte string that is UTF-8; ByteBuf a byte
\* string, a text string or an array of u8; u16 and u64 an unsigned integer
\* that fits; Option null or what its type takes; Vec an array.
DecValue(ts, kind) ==
    CASE kind = "text" ->
            IF (IsItem(ts, "text") \/ IsItem(ts, "bytes"))
               /\ ValidUtf8(Head(ts).arg)
            THEN Parsed(Head(ts).arg, Tail(ts))
            ELSE Fail
      [] kind = "bytes" ->
            IF IsItem(ts, "bytes")
               \/ (IsItem(ts, "text") /\ ValidUtf8(Head(ts).arg))
            THEN Parsed(Head(ts).arg, Tail(ts))
            ELSE IF IsItem(ts, "array")
            THEN DecByteSeq(Tail(ts), Head(ts).arg, "")
            ELSE Fail
      [] kind = "u16" ->
            IF IsItem(ts, "uint") /\ Head(ts).arg < 65536
            THEN Parsed(Head(ts).arg, Tail(ts))
            ELSE Fail
      [] kind = "u64" ->
            IF IsItem(ts, "uint")
            THEN Parsed(Head(ts).arg, Tail(ts))
            ELSE Fail
      [] kind \in OptionKinds ->
            IF IsItem(ts, "null")
            THEN Parsed(None, Tail(ts))
            ELSE LET r == DecValue(ts, Inner(kind))
                 IN IF r.ok THEN Parsed(Some(r.val), r.rest) ELSE Fail
      [] kind = "meta" -> DecStruct(ts, MetaFields)
      [] kind = "headers" ->
            IF IsItem(ts, "array")
            THEN DecSeq(Tail(ts), Head(ts).arg, HeaderFields, << >>)
            ELSE Fail

\* The n elements of a Vec of structs.
DecSeq(ts, n, fields, acc) ==
    IF n = 0
    THEN Parsed(acc, ts)
    ELSE LET r == DecStruct(ts, fields)
         IN IF r.ok
            THEN DecSeq(r.rest, n - 1, fields, Append(acc, r.val))
            ELSE Fail

\* The n elements of a ByteBuf given as an array: each a u8.
DecByteSeq(ts, n, acc) ==
    IF n = 0
    THEN Parsed(acc, ts)
    ELSE IF IsItem(ts, "uint") /\ Head(ts).arg < 256
    THEN DecByteSeq(Tail(ts), n - 1, acc \o ByteChar(Head(ts).arg))
    ELSE Fail

\* serde_cbor::from_slice: the value, or an error when the bytes do not
\* parse or data follows the value.
FromSlice(bytes, fields) ==
    LET r == DecStruct(bytes, fields)
    IN IF r.ok /\ r.rest = << >> THEN Some(r.val) ELSE None

\* decode_request and decode_response.
decode_request(bytes) == FromSlice(bytes, RequestFields)
decode_response(bytes) == FromSlice(bytes, ResponseFields)

\* The sender encodes value v of the given kind.
Encode(kind, v) ==
    /\ UNCHANGED exceptCodec
    /\ wire_value = None
    /\ wire_value' = Some([kind |-> kind, value |-> v])
    /\ wire_bytes' = IF kind = "request"
                     THEN encode_request(v) ELSE encode_response(v)
    /\ UNCHANGED wire_decoded

\* The receiver decodes the bytes.
Decode ==
    /\ UNCHANGED exceptCodec
    /\ wire_value # None
    /\ ~wire_decoded.done
    /\ wire_decoded' =
          [done |-> TRUE,
           result |-> IF wire_value[1].kind = "request"
                      THEN decode_request(wire_bytes)
                      ELSE decode_response(wire_bytes)]
    /\ UNCHANGED << wire_value, wire_bytes >>

\* Nothing has been decoded.
NotDecoded == [done |-> FALSE, result |-> None]

\* The message has been handled; the next one is awaited.
CodecDone ==
    /\ UNCHANGED exceptCodec
    /\ wire_decoded.done
    /\ wire_value' = None
    /\ wire_bytes' = << >>
    /\ wire_decoded' = NotDecoded

CodecInit ==
    /\ wire_value = None
    /\ wire_bytes = << >>
    /\ wire_decoded = NotDecoded

CodecNext ==
    \/ /\ wire_value = None
       /\ \E req \in WireRequests : Encode("request", req)
    \/ /\ wire_value = None
       /\ \E resp \in WireResponses : Encode("response", resp)
    \/ Decode
    \/ CodecDone

(* ---------------------------- MemoryStore ----------------------------- *)

\* tokio::sync::mpsc::channel(100): the capacity of a watcher's channel.
CHANNEL_CAPACITY == 100

\* The function ids, and the entries the callers pass: entry.manifest.id and
\* entry.enabled stand for the whole FunctionEntry.
StoreIds == {"fn-1", "fn-2"}
StoreEntries == [id : StoreIds, enabled : BOOLEAN]

\* Result<T, StoreError>
StoreOk(v) == [status |-> "Ok", value |-> v]
StoreErr == [status |-> "Err", value |-> None]
NoResult == [status |-> "none", value |-> None]

\* HashMap::insert on entries
StoreInsert(es, e) ==
    [x \in DOMAIN es \cup {e.id} |-> IF x = e.id THEN e ELSE es[x]]

\* HashMap::remove on entries
StoreRemove(es, id) == [x \in DOMAIN es \ {id} |-> es[x]]

\* get, lines 185-188: entries.get(function_id).cloned()
Get(es, id) == IF id \in DOMAIN es THEN Some(es[id]) ELSE None

\* A new channel. Its queue is the full log of the store while none of its
\* events has been read, if at the watch call the store was empty and no
\* mutation was between its write guard and the end of its notify: the
\* events sent to it are those of the mutations applied after it was
\* registered, and these are all the mutations there were.
NewWatcher ==
    [queue |-> << >>, open |-> TRUE,
     full_log |-> entries = << >> /\ applied = << >>]

\* A channel whose receiver is dropped.
ClosedWatcher == [queue |-> << >>, open |-> FALSE, full_log |-> FALSE]

\* The tasks that have still to send their event to watcher w.
Unsent(w) ==
    {q \in Procs : \/ store_pc[q] = "notify_lock"
                   \/ store_pc[q] = "notify" /\ store_ix[q] <= w}

\* Every channel has room, within MaxEvents, for one more event after those
\* on their way to it, or is full and takes no event.
Room ==
    \A w \in DOMAIN watchers :
        \/ Len(watchers[w].queue) + Cardinality(Unsent(w)) < MaxEvents
        \/ Len(watchers[w].queue) = CHANNEL_CAPACITY

\* Task p's call returns r.
StoreReturns(p, r) ==
    store_ret' = [q \in Procs |-> IF q = p THEN r ELSE NoResult]

\* A mutation returned an error before its notify.
StoreFails(p) ==
    /\ StoreReturns(p, StoreErr)
    /\ UNCHANGED << entries, store_pc, store_ev, store_ix, applied >>

\* A mutation was applied under the write guard, which is dropped; notify
\* is called with event ev.
StoreNotifies(p, ev) ==
    /\ store_pc' = [store_pc EXCEPT ![p] = "notify_lock"]
    /\ store_ev' = [store_ev EXCEPT ![p] = Some(ev)]
    /\ store_ret' = [store_ret EXCEPT ![p] = NoResult]
    /\ applied' = Append(applied, p)
    /\ UNCHANGED store_ix

\* StoreRegister without the contains_key check.
StoreRegisterOverwrites(p, e) ==
    /\ store_pc[p] = "idle"
    /\ Room
    /\ entries' = StoreInsert(entries, e)
    /\ StoreNotifies(p, [kind |-> "Added", id |-> e.id, entry |-> Some(e)])
    /\ UNCHANGED watchers
    /\ UNCHANGED exceptStore

\* register, lines 136-148: the block under the write guard on entries.
StoreRegister(p, e) ==
    /\ store_pc[p] = "idle"
    /\ IF e.id \in DOMAIN entries
       THEN StoreFails(p)
       ELSE /\ Room
            /\ entries' = StoreInsert(entries, e)
            /\ StoreNotifies(p, [kind |-> "Added", id |-> e.id,
                                 entry |-> Some(e)])
    /\ UNCHANGED watchers
    /\ UNCHANGED exceptStore

\* update, lines 154-166: the block under the write guard on entries.
StoreUpdate(p, e) ==
    /\ store_pc[p] = "idle"
    /\ IF e.id \notin DOMAIN entries
       THEN StoreFails(p)
       ELSE /\ Room
            /\ entries' = StoreInsert(entries, e)
            /\ StoreNotifies(p, [kind |-> "Updated", id |-> e.id,
                                 entry |-> Some(e)])
    /\ UNCHANGED watchers
    /\ UNCHANGED exceptStore

\* remove, lines 172-179: the block under the write guard on entries.
StoreDelete(p, id) ==
    /\ store_pc[p] = "idle"
    /\ IF id \notin DOMAIN entries
       THEN StoreFails(p)
       ELSE /\ Room
            /\ entries' = StoreRemove(entries, id)
            /\ StoreNotifies(p, [kind |-> "Removed", id |-> id,
                                 entry |-> None])
    /\ UNCHANGED watchers
    /\ UNCHANGED exceptStore

\* get, lines 185-188.
StoreGet(p, id) ==
    /\ store_pc[p] = "idle"
    /\ StoreReturns(p, StoreOk(Get(entries, id)))
    /\ UNCHANGED << entries, watchers, store_pc, store_ev, store_ix, applied >>
    /\ UNCHANGED exceptStore

\* Task p's call returns Ok(()) after its notify.
NotifyReturns(p) ==
    /\ store_pc' = [store_pc EXCEPT ![p] = "idle"]
    /\ store_ev' = [store_ev EXCEPT ![p] = None]
    /\ store_ix' = [store_ix EXCEPT ![p] = 1]
    /\ applied' = SelectSeq(applied, LAMBDA q : q # p)
    /\ StoreReturns(p, StoreOk(None))

\* notify, line 127: the read guard on watchers is taken, which waits
\* behind a task that waits for the write guard (tokio's RwLock is
\* write-preferring); with no watcher the loop is over at once.
NotifyLock(p) ==
    /\ store_pc[p] = "notify_lock"
    /\ \A q \in Procs : store_pc[q] # "watch"
    /\ IF watchers = << >>
       THEN NotifyReturns(p)
       ELSE /\ store_pc' = [store_pc EXCEPT ![p] = "notify"]
            /\ store_ix' = [store_ix EXCEPT ![p] = 1]
            /\ UNCHANGED << store_ev, store_ret, applied >>
    /\ UNCHANGED << entries, watchers >>
    /\ UNCHANGED exceptStore

\* notify, lines 128-130: sender.send(event).await for the next watcher. It
\* waits while the channel is full and fails at once, the error ignored,
\* when the receiver is gone. After the last watcher the call returns.
NotifySend(p) ==
    /\ store_pc[p] = "notify"
    /\ LET w == store_ix[p]
       IN /\ IF watchers[w].open
             THEN /\ Len(watchers[w].queue) < CHANNEL_CAPACITY
                  /\ watchers' = [watchers EXCEPT ![w].queue =
                                     Append(@, store_ev[p][1])]
             ELSE UNCHANGED watchers
          /\ IF w = Len(watchers)
             THEN NotifyReturns(p)
             ELSE /\ store_ix' = [store_ix EXCEPT ![p] = w + 1]
                  /\ UNCHANGED << store_pc, store_ev, store_ret, applied >>
    /\ UNCHANGED entries
    /\ UNCHANGED exceptStore

\* The tasks that wait for the write guard on watchers.
Watching == {q \in Procs : store_pc[q] = "watch"}

\* watch, lines 196-197: the channel is created and the write guard on
\* watchers is asked for.
WatchCall(p) ==
    /\ store_pc[p] = "idle"
    /\ Len(watchers) + Cardinality(Watching) < MaxWatchers
    /\ store_pc' = [store_pc EXCEPT ![p] = "watch"]
    /\ store_ret' = [store_ret EXCEPT ![p] = NoResult]
    /\ UNCHANGED << entries, watchers, store_ev, store_ix, applied >>
    /\ UNCHANGED exceptStore

\* watch, lines 197-199: the write guard on watchers is taken, which waits
\* for every notify that holds a read guard; the sender is pushed and the
\* receiver returned.
StoreWatch(p) ==
    /\ store_pc[p] = "watch"
    /\ \A q \in Procs : store_pc[q] # "notify"
    /\ watchers' = Append(watchers, NewWatcher)
    /\ store_pc' = [store_pc EXCEPT ![p] = "idle"]
    /\ StoreReturns(p, StoreOk(None))
    /\ UNCHANGED << entries, store_ev, store_ix, applied >>
    /\ UNCHANGED exceptStore

\* The holder of receiver w reads the next event.
WatcherRecv(w) ==
    /\ w \in DOMAIN watchers
    /\ watchers[w].open
    /\ watchers[w].queue # << >>
    /\ watchers' = [watchers EXCEPT ![w].queue = Tail(@),
                                    ![w].full_log = FALSE]
    /\ UNCHANGED << entries, store_pc, store_ev, store_ix, store_ret, applied >>
    /\ UNCHANGED exceptStore

\* The holder of receiver w drops it, and the unread events with it.
WatcherDrop(w) ==
    /\ w \in DOMAIN watchers
    /\ watchers[w].open
    /\ watchers' = [watchers EXCEPT ![w] = ClosedWatcher]
    /\ UNCHANGED << entries, store_pc, store_ev, store_ix, store_ret, applied >>
    /\ UNCHANGED exceptStore

\* MemoryStore::new()
StoreInit ==
    /\ entries = << >>
    /\ watchers = << >>
    /\ store_pc = [p \in Procs |-> "idle"]
    /\ store_ev = [p \in Procs |-> None]
    /\ store_ix = [p \in Procs |-> 1]
    /\ store_ret = [p \in Procs |-> NoResult]
    /\ applied = << >>

StoreNext ==
    \/ \E p \in Procs :
          \/ \E e \in StoreEntries :
                \/ StoreRegister(p, e)
                \/ StoreUpdate(p, e)
          \/ \E id \in StoreIds :
                \/ StoreDelete(p, id)
                \/ StoreGet(p, id)
          \/ NotifyLock(p)
          \/ NotifySend(p)
          \/ WatchCall(p)
          \/ StoreWatch(p)
    \/ \E w \in 1..MaxWatchers :
          \/ WatcherRecv(w)
          \/ WatcherDrop(w)

\* The events of fn-1 registered and removed, time after time, that fill a
\* channel nobody reads: CHANNEL_CAPACITY events.
Backlog ==
    [i \in 1..CHANNEL_CAPACITY |->
        IF i % 2 = 1
        THEN [kind |-> "Added", id |-> "fn-1",
              entry |-> Some([id |-> "fn-1", enabled |-> TRUE])]
        ELSE [kind |-> "Removed", id |-> "fn-1", entry |-> None]]

\* The store after watch() and then CHANNEL_CAPACITY / 2 times register and
\* remove of fn-1, one call after the other, the receiver kept and not read:
\* the store is empty again and the watcher's channel is full.
StoreBacklogInit ==
    /\ entries = << >>
    /\ watchers = << [queue |-> Backlog, open |-> TRUE, full_log |-> TRUE] >>
    /\ store_pc = [p \in Procs |-> "idle"]
    /\ store_ev = [p \in Procs |-> None]
    /\ store_ix = [p \in Procs |-> 1]
    /\ store_ret = [p \in Procs |-> NoResult]
    /\ applied = << >>

\* The store's callers with watchers that do not read: a holder of a
\* receiver keeps it or drops it.
BacklogNext ==
    \/ \E p \in Procs :
          \/ \E e \in StoreEntries :
                \/ StoreRegister(p, e)
                \/ StoreUpdate(p, e)
          \/ \E id \in StoreIds : StoreDelete(p, id)
          \/ NotifyLock(p)
          \/ NotifySend(p)
          \/ WatchCall(p)
          \/ StoreWatch(p)
    \/ \E w \in 1..MaxWatchers : WatcherDrop(w)

\* The runtime runs every task that can take its next step.
StoreFairness ==
    \A p \in Procs :
        /\ WF_vars(NotifyLock(p))
        /\ WF_vars(NotifySend(p))
        /\ WF_vars(StoreWatch(p))

(* ----------------------------- RouteTable ----------------------------- *)

\* Strings are sequences of characters.
RoutePatterns ==
    { << "/", "a" >>, << "/", "a", "/", "*" >>, << "/", ":", "i" >> }
RequestPaths ==
    { << "/", "a" >>, << "/", "a", "/", "b" >>, << "/", "b" >> }

\* enum RouteMethod (three of its variants)
RouteMethods == {"Get", "Post", "Any"}
\* The method strings of requests.
RequestMethods == {"GET", "get", "POST"}

FunctionIds == {"f", "g"}
Priorities == {0, 10}

\* struct Route
Routes ==
    [path : RoutePatterns, method : RouteMethods \ {"Post"},
     function_id : FunctionIds, priority : Priorities, enabled : BOOLEAN]

\* str::to_ascii_uppercase on the method strings
AsciiUpper(m) == IF m = "get" THEN "GET" ELSE IF m = "post" THEN "POST" ELSE m

\* str::eq_ignore_ascii_case
EqIgnoreAsciiCase(a, b) == AsciiUpper(a) = AsciiUpper(b)

\* RouteMethod::matches, lines 25-36
RouteMethodMatches(m, method) ==
    CASE m = "Any" -> TRUE
      [] m = "Get" -> EqIgnoreAsciiCase(method, "GET")
      [] m = "Post" -> EqIgnoreAsciiCase(method, "POST")

\* str::starts_with, str::ends_with, str::contains
StartsWith(s, pre) ==
    Len(pre) <= Len(s) /\ SubSeq(s, 1, Len(pre)) = pre
EndsWith(s, suf) ==
    Len(suf) <= Len(s) /\ SubSeq(s, Len(s) - Len(suf) + 1, Len(s)) = suf
StrContains(s, c) == \E i \in 1..Len(s) : s[i] = c

\* str::split(c).collect(): the pieces between the occurrences of c
RECURSIVE Split(_, _)
Split(s, c) ==
    IF ~StrContains(s, c)
    THEN << s >>
    ELSE LET i == CHOOSE k \in 1..Len(s) :
                     s[k] = c /\ \A j \in 1..(k - 1) : s[j] # c
         IN << SubSeq(s, 1, i - 1) >> \o Split(SubSeq(s, i + 1, Len(s)), c)

\* Route::matches, lines 109-138
Matches(route, path, method) ==
    IF ~route.enabled THEN FALSE
    ELSE IF ~RouteMethodMatches(route.method, method) THEN FALSE
    ELSE IF EndsWith(route.path, << "/", "*" >>)
    THEN StartsWith(path, SubSeq(route.path, 1, Len(route.path) - 2))
    ELSE IF StrContains(route.path, ":")
    THEN LET route_segments == Split(route.path, "/")
             path_segments == Split(path, "/")
         IN IF Len(route_segments) # Len(path_segments)
            THEN FALSE
            ELSE \A i \in 1..Len(route_segments) :
                    \/ StartsWith(route_segments[i], << ":" >>)
                    \/ route_segments[i] = path_segments[i]
    ELSE route.path = path

\* The place of a route in a list sorted so far, for a sort that puts it
\* before the routes that compare equal to it.
PlaceBeforeEquals(sorted, r) ==
    Cardinality({i \in 1..Len(sorted) : sorted[i].priority > r.priority})

\* The place of a route in a list sorted so far, by the comparison
\* b.priority.cmp(&a.priority) of line 158, for a stable sort: after the
\* routes that compare less or equal.
Place(sorted, r) ==
    Cardinality({i \in 1..Len(sorted) : sorted[i].priority >= r.priority})

\* slice::sort_by with that comparison, line 158: a stable sort.
RECURSIVE SortByPriority(_)
SortByPriority(s) ==
    IF s = << >>
    THEN << >>
    ELSE LET sorted == SortByPriority(SubSeq(s, 1, Len(s) - 1))
             r == s[Len(s)]
             k == Place(sorted, r)
         IN SubSeq(sorted, 1, k) \o << r >>
               \o SubSeq(sorted, k + 1, Len(sorted))

\* Vec::retain, line 164
RECURSIVE RetainOthers(_, _)
RetainOthers(s, function_id) ==
    IF s = << >>
    THEN << >>
    ELSE IF s[1].function_id # function_id
         THEN << s[1] >> \o RetainOthers(Tail(s), function_id)
         ELSE RetainOthers(Tail(s), function_id)

\* Iterator::find over the routes, line 170
Find(s, path, method) ==
    IF \E i \in 1..Len(s) : Matches(s[i], path, method)
    THEN LET i == CHOOSE k \in 1..Len(s) :
                     /\ Matches(s[k], path, method)
                     /\ \A j \in 1..(k - 1) : ~Matches(s[j], path, method)
         IN Some(s[i])
    ELSE None

NoFind == << >>

\* RouteTable::add, lines 154-159
RouteAdd(route) ==
    /\ Len(routes) < MaxRoutes
    /\ routes' = SortByPriority(Append(routes, route))
    /\ found' = NoFind
    /\ UNCHANGED exceptRoute

\* RouteTable::remove_function, lines 162-165
RemoveFunction(function_id) ==
    /\ routes' = RetainOthers(routes, function_id)
    /\ found' = NoFind
    /\ UNCHANGED exceptRoute

\* RouteTable::find, lines 168-171
RouteFind(path, method) ==
    /\ found' = << [path |-> path, method |-> method,
                    result |-> Find(routes, path, method)] >>
    /\ UNCHANGED routes
    /\ UNCHANGED exceptRoute

\* The caller of find has its answer.
FindReturns ==
    /\ found' = NoFind
    /\ UNCHANGED routes
    /\ UNCHANGED exceptRoute

\* RouteTable::new()
RouteInit ==
    /\ routes = << >>
    /\ found = NoFind

\* The calls on the table, each under the lock on routes, one after another.
RouteNext ==
    \/ /\ found = NoFind
       /\ \/ \E route \in Routes : RouteAdd(route)
          \/ \E function_id \in FunctionIds : RemoveFunction(function_id)
          \/ \E path \in RequestPaths : \E method \in RequestMethods :
                RouteFind(path, method)
    \/ found # NoFind /\ FindReturns

(* --------------------------- specifications --------------------------- *)

Init ==
    /\ RegInit /\ CacheInit /\ PluginInit
    /\ ConvInit /\ RespInit /\ CodecInit /\ StoreInit /\ RouteInit

Next == RegNext

\* The FunctionRegistry under concurrent callers.
Spec == Init /\ [][Next]_vars

\* The FunctionRegistry under concurrent callers whose execute calls may be
\* cancelled.
SpecCancel == Init /\ [][CancelNext]_vars

\* The FunctionRegistry under concurrent callers of two functions.
SpecFunctions == Init /\ [][FunctionsNext]_vars

\* The library cache under concurrent requests, with its cleanup task.
SpecCache == Init /\ [][CacheNext]_vars

\* No task other than p is inside a registry call.
Quiet(p) == \A q \in Procs \ {p} : pc[q] = "idle"

\* The FunctionRegistry under callers that never overlap: a call starts only
\* when no other call is in progress (the integration tests' use).
SeqNext ==
    \E p \in Procs :
        \/ \E n \in Names :
              \/ Quiet(p) /\ Register(p, n)
              \/ Quiet(p) /\ CallLoad(p, n)
              \/ Quiet(p) /\ CallUnload(p, n)
              \/ Quiet(p) /\ CallExecute(p, n)
              \/ Quiet(p) /\ CallRemove(p, n)
        \/ Quiet(p) /\ LoadLock(p)
        \/ \E r \in CallbackResult : Quiet(p) /\ OnLoadReturns(p, r)
        \/ \E r \in CallbackResult : Quiet(p) /\ LoadFinish(p, r)
        \/ Quiet(p) /\ UnloadLock(p)
        \/ \E r \in CallbackResult : Quiet(p) /\ OnUnloadReturns(p, r)
        \/ Quiet(p) /\ UnloadFinish(p)
        \/ Quiet(p) /\ ExecIncrement(p)
        \/ Quiet(p) /\ ExecLock(p)
        \/ \E r \in CallbackResult : Quiet(p) /\ ExecFetchReturns(p, r)
        \/ Quiet(p) /\ ExecDecrement(p)
        \/ Quiet(p) /\ RemoveUnload(p)
        \/ Quiet(p) /\ RemoveDelete(p)

SpecSequential == Init /\ [][SeqNext]_vars

\* Every callback that was called returns, every task that is inside a call
\* is scheduled (weak fairness of its next step), and the handler's RwLock is
\* fair: a task that waits for it gets it when it is free again and again
\* (strong fairness). Callers are free never to call.
Fairness ==
    \A p \in Procs :
        /\ SF_vars(LoadLock(p))
        /\ SF_vars(UnloadLock(p))
        /\ SF_vars(ExecLock(p))
        /\ WF_vars(\E r \in CallbackResult : OnLoadReturns(p, r))
        /\ WF_vars(\E r \in CallbackResult : LoadFinish(p, r))
        /\ WF_vars(\E r \in CallbackResult : OnUnloadReturns(p, r))
        /\ WF_vars(UnloadFinish(p))
        /\ WF_vars(\E r \in CallbackResult : ExecFetchReturns(p, r))
        /\ WF_vars(ExecIncrement(p))
        /\ WF_vars(ExecDecrement(p))
        /\ WF_vars(RemoveUnload(p))
        /\ WF_vars(RemoveDelete(p))

\* The FunctionRegistry under concurrent callers, fair scheduling and
\* callbacks that return.
SpecFair == Init /\ [][Next]_vars /\ Fairness

\* The HTTP server in front of the registry.
SpecServer == Init /\ [][SrvNext]_vars

\* The dynamic host: handle_rpc from the cache lookup through the closure
\* that calls the plugin to the response.
HostNext ==
    \/ \E r \in Reqs :
          \/ \E k \in Keys : Lookup(r, k)
          \/ \E ok \in BOOLEAN : LibraryNew(r, ok)
          \/ InsertOrReuse(r)
          \/ DropLibrary(r)
          \/ InvokeReturns(r)
    \/ PluginNext

SpecHost == Init /\ [][HostNext]_vars

\* handle_request's conversion of incoming requests, one after another.
SpecConvert == Init /\ [][ConvNext]_vars

\* The gateways' translation of function responses, one after another.
SpecResponse == Init /\ [][RespNext]_vars

\* Messages encoded by one side of the ABI and decoded by the other.
SpecCodec == Init /\ [][CodecNext]_vars

\* The MemoryStore under concurrent callers and watchers.
SpecStore == Init /\ [][StoreNext]_vars

BacklogInit ==
    /\ RegInit /\ CacheInit /\ PluginInit
    /\ ConvInit /\ RespInit /\ CodecInit /\ StoreBacklogInit /\ RouteInit

\* The MemoryStore with a watcher whose channel is full, under concurrent
\* callers, fair scheduling and watchers that do not read.
SpecBacklog == BacklogInit /\ [][BacklogNext]_vars /\ StoreFairness

\* The RouteTable under calls of add, remove_function and find.
SpecRoutes == Init /\ [][RouteNext]_vars

\* No request of the dynamic host is in progress.
HostIdle == \A r \in Reqs : rpc[r] = "idle"

\* No task is inside the HTTP server.
SrvIdle == \A p \in Procs : pc[p] = "idle"

\* The two gateways of the repository side by side: the HTTP server in front
\* of the registry and the dynamic host (manifest, library cache, and
\* closures that find no fezz_fetch or get a null pointer from it). They are
\* separate programs that share no state, so a step of one commutes with
\* every step of the other; they take turns when idle.
GatewaysNext ==
    \/ \E p \in Procs :
          \/ \E n \in Names : HostIdle /\ Register(p, n)
          \/ \E n \in ReqNames :
                \E len \in BodyLens : HostIdle /\ HandleRequest(p, n, len)
          \/ \E ok \in BOOLEAN : HostIdle /\ Collect(p, ok)
          \/ HostIdle /\ SrvExecute(p)
          \/ HostIdle /\ LoadLock(p)
          \/ \E r \in CallbackResult : HostIdle /\ OnLoadReturns(p, r)
          \/ \E r \in CallbackResult : HostIdle /\ LoadFinish(p, r)
          \/ HostIdle /\ ExecIncrement(p)
          \/ HostIdle /\ ExecLock(p)
          \/ \E r \in CallbackResult : HostIdle /\ ExecFetchReturns(p, r)
          \/ HostIdle /\ ExecDecrement(p)
    \/ \E r \in Reqs :
          \/ \E e \in ManifestErrors : SrvIdle /\ ManifestError(r, e)
          \/ \E k \in Keys : SrvIdle /\ Lookup(r, k)
          \/ \E ok \in BOOLEAN : SrvIdle /\ LibraryNew(r, ok)
          \/ SrvIdle /\ InsertOrReuse(r)
          \/ SrvIdle /\ DropLibrary(r)
          \/ \E ok \in BOOLEAN : SrvIdle /\ GetSymbol(r, ok)
          \/ \E out \in NoBuffer : SrvIdle /\ FezzFetch(r, out)
          \/ SrvIdle /\ InvokeReturns(r)

SpecGateways == Init /\ [][GatewaysNext]_vars

(* ------------------------- claims: the registry ----------------------- *)

\* Task p, in a fetch or about to decrement, counts on the entry now stored
\* under n.
InFlightOn(p, n) ==
    /\ pc[p] \in {"exec_lock", "fetch", "exec_dec"}
    /\ nm[p] = n
    /\ hd[p] = Some(functions[n].function)

\* Task p has set the entry stored under its name to Loading or Unloading and
\* has not yet written the final state.
InTransition(p) ==
    /\ pc[p] \in {"load_lock", "on_load", "load_ready", "load_reset",
                  "unload_lock", "on_unload", "unload_done"}
    /\ Contains(nm[p])
    /\ hd[p] = Some(functions[nm[p]].function)

\* C1: in every reachable state an entry whose active_invocations is greater
\* than zero has state Ready or Unloading.
C1_ActiveImpliesReadyOrUnloading ==
    \A n \in DOMAIN functions :
        functions[n].active_invocations > 0
            => functions[n].state \in {"Ready", "Unloading"}

\* C2: while one load or unload call on an entry is in progress, no other
\* load or unload call on the same entry changes the entry's state or calls
\* on_load or on_unload.
C2_TransitionsSerialized ==
    [][\A p \in Procs : \A q \in Procs \ {p} :
          InTransition(p) =>
            /\ ~ ( /\ pc[q] \in {"idle", "unload_start"}
                   /\ pc'[q] \in {"load_lock", "unload_lock"}
                   /\ nm'[q] = nm[p]
                   /\ functions'[nm[p]].state # functions[nm[p]].state )
            /\ ~ ( /\ pc[q] \in {"load_lock", "unload_lock"}
                   /\ pc'[q] \in {"on_load", "on_unload"}
                   /\ hd[q] = hd[p] )]_vars

\* C3: once every call has returned (whether its fetch returned Ok or Err, or
\* its load failed), the active_invocations of every entry is zero.
C3_CounterReturnsToZero ==
    (\A p \in Procs : pc[p] = "idle")
        => \A n \in DOMAIN functions : functions[n].active_invocations = 0

\* C3, witness: every call has returned, the last one an execute whose fetch
\* returned an error on a loaded handler, and the counter is zero.
C3_Witness ==
    /\ \A p \in Procs : pc[p] = "idle"
    /\ \E p \in Procs : ret[p] = "Err"
    /\ Contains("f")
    /\ functions["f"].state = "Ready"
    /\ lastCb[functions["f"].function] = "on_load_ok"
    /\ functions["f"].active_invocations = 0

\* C4: active_invocations is never negative, and a zero counter implies that
\* no fetch of that entry is between its increment and its decrement.
C4_ZeroCounterMeansNoFetchInFlight ==
    \A n \in DOMAIN functions :
        /\ functions[n].active_invocations >= 0
        /\ functions[n].active_invocations = 0
              => ~ \E p \in Procs : InFlightOn(p, n)

\* C10: load starts a load (sets the state to Loading, and goes on to call
\* on_load) only when the entry's state is Unloaded.
C10_LoadOnlyFromUnloaded ==
    [][\A p \in Procs :
          (pc[p] = "idle" /\ pc'[p] = "load_lock")
              => functions[nm'[p]].state = "Unloaded"]_vars

\* The active_invocations of every entry are left as they are by this step.
CountersKept ==
    /\ DOMAIN functions' = DOMAIN functions
    /\ \A n \in DOMAIN functions :
          functions'[n].active_invocations = functions[n].active_invocations

\* C11: when on_load returns an error, load leaves the entry stored under the
\* name in state Unloaded and returns the error; an execute that triggered the
\* load returns the error without calling fetch (no read guard is taken, the
\* task is out of the call) and without changing active_invocations. The
\* step in which on_load returns the error leads to the reset of the state
\* and changes no entry; the reset is the step that returns.
C11_LoadErrorSurfaces ==
    [][\A p \in Procs :
          /\ OnLoadReturns(p, "Err") =>
                /\ pc'[p] = "load_reset"
                /\ functions' = functions
                /\ hreaders' = hreaders
          /\ LoadFinish(p, "Err") =>
                /\ Contains(nm[p]) => functions'[nm[p]].state = "Unloaded"
                /\ ret'[p] = "Err"
                /\ pc'[p] = "idle"
                /\ hreaders' = hreaders
                /\ CountersKept]_vars

\* C11, witness: a call has returned the error of an on_load that failed, and
\* the entry is Unloaded with no invocation counted.
C11_Witness ==
    /\ Contains("f")
    /\ functions["f"].state = "Unloaded"
    /\ functions["f"].active_invocations = 0
    /\ lastCb[functions["f"].function] = "on_load_err"
    /\ \E p \in Procs : pc[p] = "idle" /\ ret[p] = "Err"
    /\ \A p \in Procs : pc[p] = "idle"

\* The steps of an execute call that runs alone, except the steps from the
\* return of on_load to the end of load: an Unloaded entry leads to on_load, a Ready entry leads
\* straight to the increment without a lifecycle callback; after the load
\* the counter is incremented, fetch is called once, its result is returned
\* and the entry is left Ready.
ExecuteAloneSteps(p) ==
    /\ \A n \in Names :
          (CallExecute(p, n) /\ Contains(n)) =>
             /\ functions[n].state = "Unloaded" =>
                   /\ pc'[p] = "load_lock"
                   /\ functions'[n].state = "Loading"
             /\ functions[n].state = "Ready" =>
                   /\ pc'[p] = "exec_inc"
                   /\ lastCb' = lastCb
    /\ op[p] = "execute" =>
          /\ pc[p] = "load_lock" => pc'[p] = "on_load"
          /\ pc[p] = "exec_inc" =>
                /\ pc'[p] = "exec_lock"
                /\ functions'[nm[p]].active_invocations = 1
          /\ pc[p] = "exec_lock" => pc'[p] = "fetch"
          /\ pc[p] = "fetch" =>
                /\ pc'[p] = "exec_dec"
                /\ result'[p] \in {Some(r) : r \in CallbackResult}
                /\ lastCb' = lastCb
          /\ pc[p] = "exec_dec" =>
                /\ pc'[p] = "idle"
                /\ ret'[p] = result[p][1]
                /\ functions'[nm[p]].state = "Ready"
                /\ functions'[nm[p]].active_invocations = 0
                /\ lastCb'[functions'[nm[p]].function] = "on_load_ok"

\* C12, as claimed: an execute call that runs alone on an Unloaded entry
\* calls on_load once and then fetch once, returns the fetch result and
\* leaves the entry Ready; on a Ready entry it calls fetch once and no
\* on_load. In particular the return of on_load leads on to the end of
\* load, which leaves the entry Ready and leads on to the increment and the
\* fetch.
C12_ExecuteLoadsThenFetches ==
    [][\A p \in Procs :
          /\ ExecuteAloneSteps(p)
          /\ (op[p] = "execute" /\ pc[p] = "on_load") =>
                pc'[p] \in {"load_ready", "load_reset"}
          /\ (op[p] = "execute" /\ pc[p] \in {"load_ready", "load_reset"}) =>
                /\ pc'[p] = "exec_inc"
                /\ functions'[nm[p]].state = "Ready"]_vars

\* C12, amended: as claimed when on_load returns Ok; when on_load returns an
\* error the call returns that error, fetch is not called and the entry is
\* left Unloaded.
C12_ExecuteLoadsThenFetchesIfLoadOk ==
    [][\A p \in Procs :
          /\ ExecuteAloneSteps(p)
          /\ (op[p] = "execute" /\ pc[p] = "on_load") =>
                /\ functions' = functions
                /\ IF lastCb'[hd[p][1]] = "on_load_ok"
                   THEN pc'[p] = "load_ready"
                   ELSE /\ lastCb'[hd[p][1]] = "on_load_err"
                        /\ pc'[p] = "load_reset"
          /\ (op[p] = "execute" /\ pc[p] = "load_ready") =>
                /\ pc'[p] = "exec_inc"
                /\ functions'[nm[p]].state = "Ready"
                /\ lastCb' = lastCb
          /\ (op[p] = "execute" /\ pc[p] = "load_reset") =>
                /\ pc'[p] = "idle"
                /\ ret'[p] = "Err"
                /\ functions'[nm[p]].state = "Unloaded"
                /\ lastCb' = lastCb
                /\ CountersKept]_vars

\* C12, witness: calls did not overlap, the last one an execute that returned
\* the error of its fetch; the entry is Ready and its counter is zero.
C12_Witness ==
    /\ \A p \in Procs : pc[p] = "idle"
    /\ \E p \in Procs : ret[p] = "Err"
    /\ Contains("f")
    /\ functions["f"].state = "Ready"
    /\ functions["f"].active_invocations = 0
    /\ lastCb[functions["f"].function] = "on_load_ok"
    /\ nextHandler = 2

\* C13: when on_unload returns, with Ok or with an error, the entry stored
\* under the name is set to Unloaded and unload returns Ok; unload on a Ready
\* entry goes on to call on_unload; unload on an Unloaded entry returns Ok at
\* once, with no callback and no change.
C13_UnloadEndsUnloaded ==
    [][\A p \in Procs :
          /\ \A r \in CallbackResult :
                OnUnloadReturns(p, r) =>
                   /\ pc'[p] = "unload_done"
                   /\ functions' = functions
          /\ UnloadFinish(p) =>
                /\ Contains(nm[p]) => functions'[nm[p]].state = "Unloaded"
                /\ op[p] = "unload" => (pc'[p] = "idle" /\ ret'[p] = "Ok")
          /\ \A n \in Names :
                (CallUnload(p, n) /\ Contains(n)) =>
                   /\ functions[n].state = "Unloaded" =>
                         /\ pc'[p] = "idle"
                         /\ ret'[p] = "Ok"
                         /\ functions' = functions
                         /\ lastCb' = lastCb
                         /\ hwriter' = hwriter
                   /\ functions[n].state = "Ready" =>
                         /\ pc'[p] = "unload_lock"
                         /\ hd'[p] = Some(functions[n].function)
          /\ (pc[p] = "unload_lock" /\ pc'[p] # pc[p]) =>
                pc'[p] = "on_unload"]_vars

\* C13, witness: unload has returned Ok after an on_unload that returned an
\* error, and the entry is Unloaded.
C13_Witness ==
    /\ Contains("f")
    /\ functions["f"].state = "Unloaded"
    /\ lastCb[functions["f"].function] = "on_unload_err"
    /\ \A p \in Procs : pc[p] = "idle"
    /\ \E p \in Procs : ret[p] = "Ok"

\* C14: register with a new name inserts an entry in state Unloaded with
\* active_invocations 0 and returns Ok; register with a registered name
\* returns an error and leaves the map, with the existing entry, as it was.
C14_RegisterInsertsOrFails ==
    [][\A p \in Procs : \A n \in Names :
          Register(p, n) =>
             IF Contains(n)
             THEN /\ ret'[p] = "AlreadyRegistered"
                  /\ functions' = functions
                  /\ nextHandler' = nextHandler
             ELSE /\ ret'[p] = "Ok"
                  /\ DOMAIN functions' = DOMAIN functions \cup {n}
                  /\ functions'[n].state = "Unloaded"
                  /\ functions'[n].active_invocations = 0
                  /\ functions'[n].function = nextHandler
                  /\ \A x \in DOMAIN functions :
                        functions'[x] = functions[x]]_vars

\* C14, witness: a register of a name whose entry is Ready and has an
\* invocation in flight has returned the error.
C14_Witness ==
    /\ \E p \in Procs : pc[p] = "idle" /\ ret[p] = "AlreadyRegistered"
    /\ Contains("f")
    /\ functions["f"].state = "Ready"
    /\ functions["f"].active_invocations = 1

\* C15: remove deletes an entry only when it is not Ready (a Ready entry is
\* unloaded first: a remove that found it Ready goes on to on_unload); when
\* remove returns Ok the name is not registered; a remove that returns
\* not-found has changed nothing.
C15_RemoveUnloadsThenDeletes ==
    [][\A p \in Procs :
          /\ (pc[p] = "remove_del" /\ pc'[p] = "idle" /\ Contains(nm[p])) =>
                /\ functions[nm[p]].state # "Ready"
                /\ ret'[p] = "Ok"
                /\ nm[p] \notin DOMAIN functions'
          /\ (pc[p] = "unload_start" /\ pc'[p] # pc[p]) =>
                pc'[p] = "unload_lock"
          /\ (op[p] = "remove" /\ pc'[p] = "idle" /\ ret'[p] = "NotFound") =>
                functions' = functions]_vars

\* C16: every call eventually returns, under fair scheduling and callbacks
\* that return.
C16_EveryCallReturns ==
    \A p \in Procs : (pc[p] # "idle") ~> (pc[p] = "idle")

\* C16, witness: one task holds the handler's write guard inside on_load
\* while another waits for the same guard to call on_unload.
C16_Witness ==
    \E p \in Procs : \E q \in Procs \ {p} :
        /\ pc[p] = "on_load"
        /\ pc[q] = "unload_lock"
        /\ hd[p] = hd[q]
        /\ hwriter[hd[p][1]] = Some(p)

\* C17: an entry in state Ready has a handler whose on_load has returned Ok,
\* with no lifecycle callback of the handler completed after it.
C17_ReadyImpliesLoaded ==
    \A n \in DOMAIN functions :
        functions[n].state = "Ready"
            => lastCb[functions[n].function] = "on_load_ok"

\* Task p is inside a callback of its handler.
InCallback(p) == pc[p] \in {"on_load", "on_unload", "fetch"}

\* Task q is inside a call and waits for, or holds, a handler's lock.
AtHandler(q) ==
    pc[q] \in {"load_lock", "on_load", "load_ready", "load_reset",
               "unload_lock", "on_unload", "unload_done",
               "exec_lock", "fetch"}

\* C29: a task that is inside on_load, on_unload or fetch does not hold the
\* guard on the registry map, and the handler lock it holds is not the one a
\* call on a function of another name waits for or holds: such a call is not
\* kept waiting by the callback.
C29_NoRegistryGuardInCallback ==
    \A p \in Procs :
        InCallback(p) =>
            /\ regLock # Some(p)
            /\ RegLockFree
            /\ \A q \in Procs \ {p} :
                  (AtHandler(q) /\ nm[q] # nm[p]) => hd[q] # hd[p]

\* C29 witness: one task is inside on_load of one function while the other
\* is inside fetch of a function of another name.
C29_Witness ==
    \E p \in Procs : \E q \in Procs \ {p} :
        /\ pc[p] = "on_load"
        /\ pc[q] = "fetch"
        /\ nm[p] # nm[q]

\* Task p is inside callback cb of handler h.
Running(p, cb, h) == pc[p] = cb /\ hd[p] = Some(h)

\* C31: on one handler, a task inside on_load or on_unload is the only task
\* inside any callback of that handler: fetch does not overlap on_load or
\* on_unload, and on_load and on_unload overlap neither each other nor
\* themselves; the step that starts on_unload finds no fetch running on the
\* handler.
C31_HandlerLockExcludes ==
    /\ [](\A h \in Handlers : \A p \in Procs : \A q \in Procs \ {p} :
            (Running(p, "on_load", h) \/ Running(p, "on_unload", h)) =>
                /\ ~Running(q, "on_load", h)
                /\ ~Running(q, "on_unload", h)
                /\ ~Running(q, "fetch", h))
    /\ [][\A p \in Procs :
            (pc[p] = "unload_lock" /\ pc'[p] = "on_unload") =>
                \A q \in Procs : ~Running(q, "fetch", hd[p][1])]_vars

\* C31 witness: an unload waits for the handler's lock while a fetch is
\* running on that handler.
C31_Witness ==
    \E p \in Procs : \E q \in Procs \ {p} :
        /\ pc[p] = "fetch"
        /\ pc[q] = "unload_lock"
        /\ hd[p] = hd[q]

\* C32, as claimed: at the step in which a fetch starts, the lifecycle
\* callback that completed last on its handler is a successful on_load.
C32_FetchOnlyOnLoaded ==
    [][\A p \in Procs :
          (pc[p] = "exec_lock" /\ pc'[p] = "fetch") =>
              lastCb[hd[p][1]] = "on_load_ok"]_vars

\* C33, as claimed: when an execute call is cancelled after its increment,
\* while it waits for the handler's lock or is inside fetch, the counter of
\* its entry is decremented by one.
C33_CancelledExecuteDecrements ==
    [][\A p \in Procs :
          ( /\ CancelExecute(p)
            /\ pc[p] \in {"exec_lock", "fetch"}
            /\ Contains(nm[p]) ) =>
              functions'[nm[p]].active_invocations =
                 SaturatingSub1(functions[nm[p]].active_invocations)]_vars

\* C34: a load or execute call on an entry that is Loading returns the
\* "already being loaded" error at once: the entry, its counter, the
\* handlers' locks and the record of completed callbacks are as before, and
\* the caller is in no callback and waits for nothing.
C34_LoadDuringLoadingFails ==
    [][\A p \in Procs : \A n \in Names :
          ( /\ CallLoad(p, n) \/ CallExecute(p, n)
            /\ Contains(n)
            /\ functions[n].state = "Loading" ) =>
              /\ ret'[p] = "AlreadyLoading"
              /\ pc'[p] = "idle"
              /\ functions' = functions
              /\ UNCHANGED << hwriter, hreaders, lastCb >>]_vars

\* C34 witness: a call has returned the error while another task's load of
\* the entry is inside on_load.
C34_Witness ==
    \E p \in Procs : \E q \in Procs \ {p} :
        /\ pc[p] = "idle"
        /\ ret[p] = "AlreadyLoading"
        /\ pc[q] = "on_load"
        /\ Contains(nm[q])
        /\ functions[nm[q]].state = "Loading"

\* C35, as claimed: on every handler the completed lifecycle callbacks
\* alternate. An on_load completes only when the handler's last completed
\* callback is not a successful on_load, and an on_unload completes only
\* when it is a successful on_load.
C35_CallbacksAlternate ==
    [][\A p \in Procs :
          /\ (pc[p] = "on_load" /\ pc'[p] # "on_load") =>
                lastCb[hd[p][1]] # "on_load_ok"
          /\ (pc[p] = "on_unload" /\ pc'[p] # "on_unload") =>
                lastCb[hd[p][1]] = "on_load_ok"]_vars

\* C36, as claimed: at the step in which remove deletes an entry, the last
\* completed lifecycle callback of its handler is not a successful on_load,
\* and no task is inside on_load or fetch of that handler.
C36_RemoveStrandsNothing ==
    [][\A p \in Procs :
          ( /\ pc[p] = "remove_del"
            /\ pc'[p] = "idle"
            /\ Contains(nm[p]) ) =>
              LET h == functions[nm[p]].function
              IN /\ lastCb[h] # "on_load_ok"
                 /\ \A q \in Procs :
                       /\ ~Running(q, "on_load", h)
                       /\ ~Running(q, "fetch", h)]_vars

\* C37: a task that is past the increment of its execute call, waiting for
\* the handler or inside fetch, has its own context: the function's name,
\* the registry's global environment and the request id of its own call,
\* which is not that of another task's call; and the context stored in
\* every entry is the one register built, with an empty request id.
C37_ContextPerCall ==
    /\ \A p \in Procs :
          pc[p] \in {"exec_lock", "fetch"} =>
              /\ fctx[p] # None
              /\ fctx[p][1].request_id = RequestIdOf(p)
              /\ fctx[p][1].env = GlobalEnv
              /\ fctx[p][1].function_name = nm[p]
              /\ \A q \in Procs \ {p} :
                    fctx[p][1].request_id # RequestIdOf(q)
    /\ \A n \in DOMAIN functions :
          functions[n].context =
              [env |-> GlobalEnv, function_name |-> n, request_id |-> ""]

\* C37 witness: two execute calls are inside fetch of the same handler.
C37_Witness ==
    \E p \in Procs : \E q \in Procs \ {p} :
        /\ pc[p] = "fetch"
        /\ pc[q] = "fetch"
        /\ hd[p] = hd[q]
        /\ fctx[p] # fctx[q]

(* ------------------------- claims: the HTTP server -------------------- *)

\* C19: a handler call is bounded by the request timeout: no request is still
\* inside on_load or fetch later than request_timeout seconds after it
\* started (by then it has been answered with a timeout).
C19_DeadlineBoundsCall ==
    \A p \in Procs :
        (request[p] # None /\ pc[p] \in {"on_load", "fetch"})
            => clock - request[p][1].request_id <= REQUEST_TIMEOUT

\* C20: a request whose body is larger than max_body_size is answered with
\* status 413 and nothing of the function is touched (no entry, lock or
\* callback changes); a body of up to exactly max_body_size bytes is accepted
\* and goes on to execute. The arrival of the request touches nothing of the
\* function either.
C20_OversizeIs413 ==
    [][\A p \in Procs : \A n \in Names : \A len \in BodyLens :
          /\ HandleRequest(p, n, len) =>
                /\ pc'[p] = "srv_collect"
                /\ request'[p] # None
                /\ request'[p][1].body_len = len
                /\ UNCHANGED << functions, hwriter, hreaders, lastCb >>
          /\ (/\ Collect(p, TRUE)
              /\ nm[p] = n
              /\ request[p][1].body_len = len) =>
                IF len > MAX_BODY_SIZE
                THEN /\ pc'[p] = "idle"
                     /\ StatusOf(ret'[p], n) = Some(413)
                     /\ functions' = functions
                     /\ hwriter' = hwriter
                     /\ hreaders' = hreaders
                     /\ lastCb' = lastCb
                ELSE /\ pc'[p] = "srv_execute"
                     /\ request'[p] # None
                     /\ request'[p][1].body_len = len]_vars

\* C21: a request for a function that does not exist is answered with a 404
\* text/plain response, runs no callback and changes nothing: in the server,
\* a request whose name is not registered leaves the registry map, the
\* handler locks and the callback history as they are; in the dynamic host,
\* a request whose manifest is missing calls no plugin and leaves the
\* library cache and the libraries as they are.
C21_NotFoundIs404 ==
    [][/\ \A p \in Procs :
            (SrvExecute(p) /\ ~Contains(nm[p])) =>
               /\ pc'[p] = "idle"
               /\ ret'[p] = "NotFound"
               /\ ErrorResponseOf(ret'[p], nm[p]).status = 404
               /\ ErrorResponseOf(ret'[p], nm[p]).headers["Content-Type"]
                     = "text/plain"
               /\ StatusOf(ret'[p], nm[p]) = Some(404)
               /\ UNCHANGED << functions, hwriter, hreaders, lastCb, result >>
               /\ UNCHANGED << cache, strong, mapped >>
       /\ \A r \in Reqs :
            ManifestError(r, "missing") =>
               /\ response'[r] # None
               /\ response'[r][1].status = 404
               /\ response'[r][1].content_type = "text/plain"
               /\ blocking'[r] = "idle"
               /\ UNCHANGED << cache, strong, mapped, buffers >>
               /\ UNCHANGED << functions, lastCb >>]_vars

\* C21 witness: with function f loaded and a library cached, a request for
\* the unregistered g has returned not-found and a request of the dynamic
\* host has been answered 404.
C21_Witness ==
    /\ "f" \in DOMAIN functions
    /\ functions["f"].state = "Ready"
    /\ \E p \in Procs : nm[p] = "g" /\ ret[p] = "NotFound"
    /\ DOMAIN cache # {}
    /\ \E r \in Reqs : response[r] # None /\ response[r][1].status = 404

(* --------------------- claims: the request conversion ----------------- *)

\* The request target as received: the path, then the question mark and the
\* query if there is one.
PathAndQuery(req) ==
    req.path \o (IF req.query = None THEN << >> ELSE << "?" >> \o req.query[1])

\* C23: the url of the request given to the function is the request target
\* without the prefix that names the function (the leading slashes and the
\* name), query string included, and is never empty: a slash stands in front
\* when no path follows the prefix.
C23_PathAndQueryKept ==
    (incoming # None /\ converted.outcome = "Ok") =>
        LET req == incoming[1]
            target == PathAndQuery(req)
            lead == Len(req.path) - Len(TrimStartMatches(req.path))
            prefix == lead + Len(converted.function_name)
            rest == SubSeq(target, prefix + 1, Len(target))
            url == converted.request[1].url
        IN /\ url # << >>
           /\ url = IF rest = << >> \/ Head(rest) = "?"
                    THEN << "/" >> \o rest
                    ELSE rest

\* C24: the request given to the function carries every incoming header:
\* as many headers as were received, each with its value as received (values
\* that are not text included), so that the headers can be read back in the
\* order received, duplicates included.
C24_HeadersPassedThrough ==
    (incoming # None /\ converted.outcome = "Ok") =>
        LET hs == incoming[1].headers
            m == converted.request[1].headers
        IN /\ Cardinality(DOMAIN m) = Len(hs)
           /\ \A i \in 1..Len(hs) :
                 /\ hs[i].name \in DOMAIN m
                 /\ m[hs[i].name] = hs[i].value

\* The headers of h that the HTTP library accepts.
ValidHeaders(h) ==
    [n \in {x \in DOMAIN h : ValidHeader(x, h[x])} |-> h[n]]

\* The HTTP response the gateway owes for resp: the function's status, or
\* 500 when it is not a valid one, its valid headers and its body.
Owed(resp) ==
    [panicked |-> FALSE,
     status |-> IF ValidStatus(resp.status) THEN resp.status ELSE 500,
     headers |-> ValidHeaders(resp.headers),
     body |-> UnwrapOrDefault(resp.body)]

\* C25: whatever the function's response, building the HTTP response does
\* not panic: an invalid header is dropped, an invalid status becomes 500,
\* and the valid headers and the body are passed on, in the server's
\* build_response and in the dynamic host alike.
C25_InvalidHeadersDropped ==
    fezz_response # None =>
        /\ built = Owed(fezz_response[1])
        /\ http_resp = Owed(fezz_response[1])

(* ------------------------- claims: the wire codec --------------------- *)

\* C26: decoding the encoding of a request or of a response gives the value
\* back: every decode of encoded bytes succeeds with the value that was
\* encoded (header order, duplicate headers, empty bodies and absent
\* optional fields included).
C26_RoundTrip ==
    wire_decoded.done =>
        /\ wire_decoded.result # None
        /\ wire_decoded.result[1] = wire_value[1].value

\* C26 witness: a request with two equal headers, an empty body, no scheme
\* and a meta whose fields are all absent has been encoded and decoded.
C26_Witness ==
    /\ wire_decoded.done
    /\ wire_value[1].kind = "request"
    /\ LET req == wire_value[1].value
       IN /\ Len(req.headers) = 2
          /\ req.headers[1] = req.headers[2]
          /\ req.body = ""
          /\ req.scheme = None
          /\ req.authority = Some("")
          /\ req.meta # None
          /\ req.meta[1].trace_id = None
          /\ req.meta[1].deadline_ms = None

(* ------------------------- claims: the MemoryStore -------------------- *)

\* Task p's call returned an error and did nothing: the entries and the
\* watchers' channels are as before, and no notify follows.
FailedWithoutEffect(p) ==
    /\ store_ret'[p] = StoreErr
    /\ store_pc'[p] = "idle"
    /\ entries' = entries
    /\ watchers' = watchers

\* Only the entry of id can have changed.
OthersKept(id) ==
    \A x \in StoreIds \ {id} : Get(entries', x) = Get(entries, x)

\* C27: register of an id that is stored, and update or remove of an id that
\* is not, return an error, change no entry and send no event; a register
\* or update that succeeds leaves get(id) returning the entry given, a
\* remove that succeeds leaves it returning None, and the entries of other
\* ids are as before.
C27_StoreErrorsAndEffects ==
    [][\A p \in Procs :
        (/\ store_pc[p] = "idle"
         /\ store_ret'[p] = StoreErr \/ store_pc'[p] = "notify_lock") =>
          /\ \A e \in StoreEntries :
                /\ StoreRegister(p, e) =>
                      IF e.id \in DOMAIN entries
                      THEN FailedWithoutEffect(p)
                      ELSE Get(entries', e.id) = Some(e) /\ OthersKept(e.id)
                /\ StoreUpdate(p, e) =>
                      IF e.id \notin DOMAIN entries
                      THEN FailedWithoutEffect(p)
                      ELSE Get(entries', e.id) = Some(e) /\ OthersKept(e.id)
          /\ \A id \in StoreIds :
                StoreDelete(p, id) =>
                   IF id \notin DOMAIN entries
                   THEN FailedWithoutEffect(p)
                   ELSE Get(entries', id) = None /\ OthersKept(id)]_vars

\* C27 witness: with both ids stored, one of them updated to a disabled
\* entry, and a watcher listening, a call has returned an error.
C27_Witness ==
    /\ DOMAIN entries = StoreIds
    /\ \E id \in StoreIds : ~entries[id].enabled
    /\ watchers # << >>
    /\ watchers[1].open
    /\ \E p \in Procs : store_ret[p] = StoreErr

\* What the holder of a receiver does with an event to follow the store.
Replay(es, ev) ==
    IF ev.kind = "Removed"
    THEN StoreRemove(es, ev.id)
    ELSE StoreInsert(es, ev.entry[1])

\* The contents after replaying the events of q, in their order, on es.
RECURSIVE ReplayAll(_, _)
ReplayAll(es, q) ==
    IF q = << >> THEN es ELSE ReplayAll(Replay(es, Head(q)), Tail(q))

\* Task p's step sends its event once to the watcher it has come to, to no
\* other, and goes on to the next watcher; the call returns after the last.
SentOnce(p) ==
    LET w == store_ix[p]
    IN /\ \A x \in DOMAIN watchers \ {w} : watchers'[x] = watchers[x]
       /\ watchers[w].open =>
             watchers'[w].queue = Append(watchers[w].queue, store_ev[p][1])
       /\ IF w = Len(watchers)
          THEN store_pc'[p] = "idle" /\ store_ret'[p] = StoreOk(None)
          ELSE store_pc'[p] = "notify" /\ store_ix'[p] = w + 1

\* Task q's mutation was applied before task p's, and both calls are running.
AppliedBefore(q, p) ==
    \E i, j \in DOMAIN applied : i < j /\ applied[i] = q /\ applied[j] = p

\* When task p sends its event to a watcher that was registered before the
\* running mutations, the events of the mutations applied before p's have
\* been sent to that watcher.
SentInOrder(p) ==
    LET w == store_ix[p]
    IN (watchers[w].open /\ watchers[w].full_log) =>
          \A q \in Procs :
              AppliedBefore(q, p) =>
                 store_pc[q] = "notify" /\ store_ix[q] > w

\* With no mutation running, replaying the events of a watcher registered on
\* the empty store gives the contents of the store.
ReplayGivesContents ==
    applied = << >> =>
       \A w \in DOMAIN watchers :
           (watchers[w].open /\ watchers[w].full_log) =>
              ReplayAll(<< >>, watchers[w].queue) = entries

\* C39: every watcher gets each successful mutation's event once, in the
\* order the mutations were applied, and replaying them gives the store's
\* contents: a register, update or remove that changes the store goes on to
\* notify with the event of its change, and no other step changes the
\* store; notify sends the event once to every watcher in turn before the
\* call returns; a watcher registered before the
\* running mutations is sent their events in the order the mutations were
\* applied; and when no mutation is running, the events of a watcher that
\* was registered on the empty store replay to the store's contents.
C39_WatchersFollowStore ==
    /\ []ReplayGivesContents
    /\ [][entries' # entries =>
            \E p \in Procs :
                store_pc[p] = "idle" /\ store_pc'[p] = "notify_lock"]_vars
    /\ [][\A p \in Procs :
            /\ (store_pc[p] = "idle" /\ store_pc'[p] = "notify_lock") =>
                  /\ applied' = Append(applied, p)
                  /\ store_ev'[p] # None
                  /\ entries' = Replay(entries, store_ev'[p][1])
                  /\ watchers' = watchers
            /\ (NotifyLock(p) /\ watchers # << >>) =>
                  store_pc'[p] = "notify" /\ store_ix'[p] = 1
            /\ NotifySend(p) => SentOnce(p) /\ SentInOrder(p)]_vars

\* C40: every call of the store returns, also when a watcher does not read
\* its channel or has dropped its receiver: a task that is inside register,
\* update, remove or watch is eventually outside it.
C40_StoreCallsReturn ==
    \A p \in Procs : (store_pc[p] # "idle") ~> (store_pc[p] = "idle")

(* ------------------------- claims: the RouteTable --------------------- *)

\* The routes are in the order of their priorities, highest first.
ByPriority(s) ==
    \A i, j \in 1..Len(s) : i < j => s[i].priority >= s[j].priority

\* List t is list s with route r put in after the routes of its priority or
\* a higher one and before the routes of a lower one.
AddedBehindEquals(s, t, r) ==
    \E k \in 0..Len(s) :
        /\ t = SubSeq(s, 1, k) \o << r >> \o SubSeq(s, k + 1, Len(s))
        /\ \A i \in 1..k : s[i].priority >= r.priority
        /\ \A i \in (k + 1)..Len(s) : s[i].priority < r.priority

\* The indices of the routes that match a find call.
Matching(f) == {i \in 1..Len(routes) : Matches(routes[i], f.path, f.method)}

\* C28: the routes are always ordered by priority, highest first; add puts
\* the route behind the routes of equal priority and remove_function takes
\* out the function's routes, both without reordering the others; find
\* returns the first enabled matching route, which has the highest priority
\* of those that match, and None exactly when none matches.
C28_PriorityOrderAndFind ==
    /\ [](ByPriority(routes))
    /\ [](found # NoFind =>
            LET f == found[1]
            IN IF Matching(f) = {}
               THEN f.result = None
               ELSE \E k \in Matching(f) :
                       /\ f.result = Some(routes[k])
                       /\ routes[k].enabled
                       /\ \A i \in Matching(f) :
                             /\ k <= i
                             /\ routes[k].priority >= routes[i].priority)
    /\ [][/\ \A route \in Routes :
               RouteAdd(route) => AddedBehindEquals(routes, routes', route)
          /\ \A function_id \in FunctionIds :
               RemoveFunction(function_id) =>
                  routes' = SelectSeq(routes,
                               LAMBDA r : r.function_id # function_id)]_vars

\* C28 witness: find skipped a disabled route of higher priority and
\* returned the earlier of two different matching routes of equal priority.
C28_Witness ==
    /\ found # NoFind
    /\ Len(routes) = 3
    /\ ~routes[1].enabled
    /\ routes[1].priority > routes[2].priority
    /\ routes[2].priority = routes[3].priority
    /\ routes[2] # routes[3]
    /\ Matches(routes[3], found[1].path, found[1].method)
    /\ found[1].result = Some(routes[2])

(* ------------------------- claims: the plugin call -------------------- *)

\* C18: on every path through the plugin call, a non-null buffer returned by
\* fezz_fetch has been freed exactly once when the closure is over and is
\* never freed twice; a null return frees nothing, makes the closure return
\* an error, and is answered with 500.
C18_BufferFreedExactlyOnce ==
    [][/\ \A b \in DOMAIN buffers' : buffers'[b].frees <= 1
       /\ \A r \in Reqs :
            /\ (blocking[r] # "idle" /\ blocking'[r] = "idle"
                    /\ raw_ptr[r] # None)
                  => buffers'[raw_ptr[r][1]].frees = 1
            /\ FezzFetch(r, "null") =>
                  /\ rresult'[r] = Some(ClosureErr)
                  /\ buffers' = buffers
            /\ (InvokeReturns(r) /\ rresult[r] = Some(ClosureErr)) =>
                  /\ response'[r] # None
                  /\ response'[r][1].status = 500
                  /\ buffers' = buffers]_vars

\* Buffer b holds the response made from a panic of the handler.
Panicked(b) == buffers[b].resp = CatchUnwind("panics")

\* C22: a panic of the user's handler does not cross the ABI boundary:
\* fezz_fetch returns a buffer as after any other call, the closure returns
\* its text, and the request is answered with status 500, content-type
\* application/json and the body {"error":"Function panicked: <message>"};
\* the library stays loaded and cached, and a later call into the same library
\* whose handler returns is answered with the handler's own response,
\* whatever its status.
C22_PanicIs500Json ==
    [][\A r \in Reqs :
          /\ FezzFetch(r, "panics") =>
                /\ blocking'[r] = "to_str"
                /\ raw_ptr'[r] # None
                /\ buffers'[raw_ptr'[r][1]].utf8
                /\ UNCHANGED << cache, strong, mapped, rlib >>
          /\ (FromRaw(r) /\ Panicked(raw_ptr[r][1])) =>
                /\ rresult'[r] # None
                /\ rresult'[r][1].ok
                /\ ResponseOf(rresult'[r][1]).status = 500
                /\ ResponseOf(rresult'[r][1]).content_type = "application/json"
                /\ ResponseOf(rresult'[r][1]).body =
                      "{\"error\":\"Function panicked: ..\"}"
                /\ rlib[r][1] \in mapped'
                /\ \E k \in DOMAIN cache' : cache'[k].library = rlib[r][1]
                /\ UNCHANGED << cache, mapped >>
          /\ \A out \in HandlerReturns :
                (/\ FromRaw(r)
                 /\ buffers[raw_ptr[r][1]].resp = CatchUnwind(out)
                 /\ \E b \in DOMAIN buffers :
                       /\ Panicked(b)
                       /\ buffers[b].frees = 1
                       /\ buffers[b].library = rlib[r]) =>
                   /\ rresult'[r] # None
                   /\ rresult'[r][1].ok
                   /\ ResponseOf(rresult'[r][1]) = UserResponse(out)
                   /\ ResponseOf(rresult'[r][1]).status =
                         (IF out = "returns" THEN 200 ELSE 404)
                   /\ ResponseOf(rresult'[r][1]).body = "user"
          /\ InvokeReturns(r) =>
                /\ response'[r] = Some(ResponseOf(rresult[r][1]))
                /\ UNCHANGED << cache, strong, mapped, buffers >>]_vars

\* C22 witness: a request whose handler panicked has been answered 500, and
\* a later request to the same library, found in the cache, has been answered
\* with its handler's response, a 404.
C22_Witness ==
    \E r1, r2 \in Reqs : \E b1, b2 \in DOMAIN buffers :
        /\ b1 < b2
        /\ Panicked(b1)
        /\ buffers[b2].resp = CatchUnwind("returns:404")
        /\ buffers[b1].library = buffers[b2].library
        /\ buffers[b1].frees = 1
        /\ buffers[b2].frees = 1
        /\ response[r1] = CatchUnwind("panics")
        /\ response[r2] = Some(UserResponse("returns:404"))
        /\ \E k \in DOMAIN cache : Some(cache[k].library) = buffers[b1].library

(* ------------------------ claims: the library cache ------------------- *)

\* Library l is referenced by the cache or by a request's `library`.
Held(l) ==
    \/ \E k \in DOMAIN cache : cache[k].library = l
    \/ \E r \in Reqs : rlib[r] = Some(l)

\* C5, as claimed: for any number of concurrent get_or_load_library calls
\* with the same key against a cold cache, Library::new succeeds at most once.
C5_LoadedExactlyOnce ==
    \A k \in Keys : loads[k] <= 1

\* C5, amended: Library::new may run once per caller that missed, but the
\* loaded library is inserted into the cache exactly once per key: never twice
\* between two evictions of the key, and the key is in the cache exactly when
\* one insertion has happened.
C5_InsertedExactlyOnce ==
    \A k \in Keys :
        /\ inserts[k] <= 1
        /\ (k \in DOMAIN cache) <=> (inserts[k] = 1)
        /\ loads[k] <= NumReqs

\* C5, witness: two callers missed and both loaded the library, one insertion
\* happened, both calls have returned and only the inserted library is loaded.
C5_Witness ==
    \E k \in Keys :
        /\ loads[k] = 2
        /\ inserts[k] = 1
        /\ \A r \in Reqs : rpc[r] \in {"idle", "invoke"}
        /\ mapped = {cache[k].library}

\* C6: every get_or_load_library call that succeeds returns a handle to the
\* library stored in the cache entry, which stays the same instance while the
\* entry exists; the library of a caller that lost the insertion race is not
\* returned to any request and is dropped: when the guard is released nobody
\* holds it, and the call unloads it before it returns.
C6_SameHandle ==
    [][/\ \A r \in Reqs :
            /\ (rpc[r] \in {"idle", "insert"}
                    /\ rpc'[r] \in {"invoke", "drop"}) =>
                  /\ rkey'[r][1] \in DOMAIN cache'
                  /\ rlib'[r] = Some(cache'[rkey'[r][1]].library)
                  /\ (rpc'[r] = "drop")
                        <=> (rpc[r] = "insert" /\ rlib'[r] # rlib[r])
                  /\ rpc'[r] = "drop" =>
                        /\ rdrop'[r] = rlib[r]
                        /\ strong'[rlib[r][1]] = 0
            /\ (rpc[r] = "drop" /\ rpc'[r] # "drop") =>
                  /\ rpc'[r] = "invoke"
                  /\ rdrop[r][1] \notin mapped'
                  /\ rlib'[r] = rlib[r]
            /\ \A q \in Reqs : rdrop[r] # None => rlib[q] # rdrop[r]
       /\ \A k \in DOMAIN cache \cap DOMAIN cache' :
            cache'[k].library = cache[k].library]_vars

\* C6, witness: two requests for one key both loaded the library, both calls
\* have returned the same handle, and the loser's library is no longer mapped.
C6_Witness ==
    \E r1 \in Reqs : \E r2 \in Reqs \ {r1} :
        /\ rpc[r1] = "invoke" /\ rpc[r2] = "invoke"
        /\ rkey[r1] = rkey[r2]
        /\ rlib[r1] = rlib[r2]
        /\ loads[rkey[r1][1]] = 2
        /\ Cardinality(mapped) = 1

\* C7: a library is mapped as long as the cache or a request holds a handle
\* to it, and a mapped library that nobody holds is being unloaded by the
\* request that dropped it; in particular the library of a running
\* invocation is mapped, also after its entry was evicted.
C7_MappedWhileHeld ==
    \A l \in Libs :
        (l \in mapped) <=> (Held(l) \/ \E r \in Reqs : rdrop[r] = Some(l))

\* C7, witness: an invocation is running inside the plugin of a library whose
\* entry a cleanup has evicted, and the library is still mapped.
C7_Witness ==
    \E r \in Reqs :
        /\ rpc[r] = "invoke"
        /\ blocking[r] = "fezz_fetch"
        /\ evicted >= 1
        /\ \A k \in DOMAIN cache : cache[k].library # rlib[r][1]
        /\ rlib[r][1] \in mapped

\* C8: a cleanup run at time now removes exactly the entries with
\* now - last_used > 5 minutes and leaves every other entry as it was.
C8_CleanupRemovesExactlyExpired ==
    [][(cpc = "retain" /\ cpc' = "sleep") =>
          /\ DOMAIN cache' =
                {k \in DOMAIN cache :
                    ~ (cnow - cache[k].last_used > CACHE_IDLE_TIMEOUT)}
          /\ \A k \in DOMAIN cache' : cache'[k] = cache[k]]_vars

\* C8, witness: a cleanup has just evicted an entry and kept one whose idle
\* time equals the timeout exactly.
C8_Witness ==
    /\ cpc = "sleep"
    /\ cnow = clock
    /\ evicted >= 1
    /\ \E k \in DOMAIN cache :
          cnow - cache[k].last_used = CACHE_IDLE_TIMEOUT

\* C9: an entry last used at time t is absent by t + idle timeout + cleanup
\* interval: no entry of the cache has been idle for longer than that. An
\* entry that has been idle for exactly that long is let through, for the
\* cleanup that would be due at that very instant.
C9_GoneAfterTimeoutPlusInterval ==
    \A k \in DOMAIN cache :
        clock - cache[k].last_used
            <= CACHE_IDLE_TIMEOUT + CACHE_CLEANUP_INTERVAL

\* C30: a cache hit returns the cached handle, loads nothing and sets
\* last_used to the time of the hit in the step of the lookup itself; as
\* long as an entry stays in the cache its last_used never moves back; and
\* a cleanup whose `now` is no later than last_used + idle timeout keeps the
\* entry as it is. So an entry acquired at t survives every cleanup up to
\* t + idle timeout.
C30_HitRefreshesAtomically ==
    [][/\ \A r \in Reqs : \A k \in Keys :
            (Lookup(r, k) /\ k \in DOMAIN cache) =>
               /\ rlib'[r] = Some(cache[k].library)
               /\ rpc'[r] = "invoke"
               /\ cache' = [cache EXCEPT ![k].last_used = clock]
               /\ UNCHANGED << nextLib, loads, inserts, mapped >>
       /\ \A k \in DOMAIN cache \cap DOMAIN cache' :
            cache'[k].last_used >= cache[k].last_used
       /\ CleanupRetain =>
            \A k \in DOMAIN cache :
               cnow <= cache[k].last_used + CACHE_IDLE_TIMEOUT =>
                  /\ k \in DOMAIN cache'
                  /\ cache'[k] = cache[k]]_vars

\* C30 witness: the only library ever loaded is held by both requests, so
\* one of them got it by a cache hit; a cleanup that ran later than the hit,
\* and later than the idle timeout after the start, has kept the entry.
C30_Witness ==
    /\ nextLib = 2
    /\ \A r \in Reqs : rpc[r] = "invoke" /\ rlib[r] = Some(1)
    /\ cpc = "sleep"
    /\ wake - CACHE_CLEANUP_INTERVAL > CACHE_IDLE_TIMEOUT
    /\ \E k \in DOMAIN cache :
          /\ cache[k].library = 1
          /\ cache[k].last_used > 0
          /\ cache[k].last_used < wake - CACHE_CLEANUP_INTERVAL

\* C38: a failed library load has no effect on the cache and is answered
\* with 500 text/plain: when Library::new fails for request r, the cache map,
\* the handles' strong counts, the mapped libraries and the load and insert
\* counts stay as they are, r holds no library, and r is answered with status
\* 500 and a text/plain body; the failure is not remembered: a lookup of a
\* key that is not in the cache goes on to load the library, whatever
\* happened before.
C38_LoadFailureIs500 ==
    [][\A r \in Reqs :
         /\ LibraryNew(r, FALSE) =>
               /\ UNCHANGED << cache, strong, mapped, nextLib, loads, inserts >>
               /\ rlib'[r] = rlib[r]
               /\ rpc'[r] = "idle"
               /\ response'[r] # None
               /\ response'[r][1].status = 500
               /\ response'[r][1].content_type = "text/plain"
         /\ \A k \in Keys :
               (Lookup(r, k) /\ k \notin DOMAIN cache) =>
                  /\ rpc'[r] = "load"
                  /\ rkey'[r] = Some(k)]_vars

\* C38 witness: a request whose load failed was answered 500 and is loading
\* again, the key still absent from the cache, while the entry another
\* request inserted under the other key is in the cache.
C38_Witness ==
    \E r \in Reqs :
        /\ response[r] # None
        /\ response[r][1].status = 500
        /\ rpc[r] = "load"
        /\ rkey[r][1] \notin DOMAIN cache
        /\ loads[rkey[r][1]] = 0
        /\ DOMAIN cache # {}

====
